---- MODULE Spec2Model ----
(***************************************************************************)
(* J-Bot: the timer-triggered jobChecker run (src/functions/jobChecker.js) *)
(* together with the storage, fetcher and job-model services.              *)
(*                                                                         *)
(* Time is counted in whole days: a posting date, the clock `now` and the  *)
(* persisted lastRunAt are day numbers, so the division by                 *)
(* 1000*60*60*24 in the date helpers is the identity on this scale.        *)
(* Strings (url, title, company_name, location, description) are          *)
(* character sequences.                                                    *)
(***************************************************************************)
EXTENDS Integers, Sequences, FiniteSets, TLC

\* ---------------------------------------------------------------- bounds
MaxTime == 2        \* the clock runs over 1..MaxTime
MaxRuns == 2        \* timer invocations per behaviour
NumSources == 2     \* entries of JOB_SOURCES that are modelled
MaxBatch == 2       \* postings one source returns at most
MAX_SCAN_LIMIT == 3 \* jobChecker.js:342 sets 500; scaled to the batch sizes
MAX_JOBS == 1       \* jobChecker.js:341 sets 6; scaled to the batch sizes
MaxFaults == 2      \* failures of the sources, the store and the Telegram API per behaviour
MaxDate == 3        \* posting dates and watermarks handed to the date functions: 0..MaxDate

\* ------------------------------------------------------------- constants
TIME_WINDOWS == [DAY |-> 1, WEEK |-> 7, MONTH |-> 30]

NaN == -1           \* getTime() of an invalid Date
Null == -2          \* null / undefined timestamp

\* --------------------------------------------------------- posting dates
Absent == [kind |-> "absent", v |-> 0]    \* null, undefined or ''
BadDate == [kind |-> "bad", v |-> 0]      \* a string new Date() cannot parse
Day(n) == [kind |-> "iso", v |-> n]       \* an ISO string of day n
Num(n) == [kind |-> "num", v |-> n]       \* a numeric timestamp of day n

\* !jobDate
Falsy(d) == d.kind = "absent" \/ (d.kind = "num" /\ d.v = 0)

\* new Date(jobDate).getTime(), NaN when the string does not parse
toDate(d) == IF d.kind \in {"iso", "num"} THEN d.v ELSE NaN

\* a posting date new Date() turns into a valid date (a numeric 0 is falsy
\* and counts as a missing date)
Parseable(d) == ~Falsy(d) /\ toDate(d) # NaN

\* a window test that drops a job without a usable date
isWithinTimeWindow_dropsUndated(jobDate, days, t) ==
    IF Falsy(jobDate) THEN FALSE
    ELSE IF toDate(jobDate) = NaN THEN FALSE
    ELSE LET diffDays == t - toDate(jobDate)
         IN  diffDays <= days /\ diffDays >= 0

isWithinTimeWindow(jobDate, days, t) ==
    IF Falsy(jobDate) THEN TRUE
    ELSE IF toDate(jobDate) = NaN THEN TRUE
    ELSE LET diffDays == t - toDate(jobDate)
         IN  diffDays <= days /\ diffDays >= 0

\* a watermark test that also keeps a job dated exactly at the watermark
isJobNewerThan_inclusive(jobDate, lastRunTimestamp) ==
    IF Falsy(jobDate) THEN TRUE
    ELSE IF lastRunTimestamp = Null THEN TRUE
    ELSE IF toDate(jobDate) = NaN \/ lastRunTimestamp = NaN THEN TRUE
    ELSE toDate(jobDate) >= lastRunTimestamp

isJobNewerThan(jobDate, lastRunTimestamp) ==
    IF Falsy(jobDate) THEN TRUE
    ELSE IF lastRunTimestamp = Null THEN TRUE
    ELSE IF toDate(jobDate) = NaN \/ lastRunTimestamp = NaN THEN TRUE
    ELSE toDate(jobDate) > lastRunTimestamp

\* Infinity is any value above the last recency threshold
Infinity == 1000

getDaysSince(jobDate, t) ==
    IF Falsy(jobDate) THEN Infinity
    ELSE IF toDate(jobDate) = NaN THEN Infinity
    ELSE IF t - toDate(jobDate) > 0 THEN t - toDate(jobDate) ELSE 0

\* ------------------------------------------------------------------- text
\* Strings are character sequences: Len, \o and SubSeq act on them.
UpperCaseLetters == "ABCDEFGHIJKLMNOPQRSTUVWXYZ"
LowerCaseLetters == "abcdefghijklmnopqrstuvwxyz"
Digits == "0123456789"

charAt(s, i) == SubSeq(s, i, i)

CharsOf(s) == {charAt(s, i) : i \in 1..Len(s)}

\* the lower-case letter of every upper-case letter
lowerCaseOf ==
    [c \in CharsOf(UpperCaseLetters) |->
        charAt(LowerCaseLetters, CHOOSE i \in 1..26 : charAt(UpperCaseLetters, i) = c)]

\* String.prototype.toLowerCase
RECURSIVE toLowerCase(_)
toLowerCase(s) ==
    IF s = "" THEN ""
    ELSE LET c == charAt(s, 1)
         IN  (IF c \in DOMAIN lowerCaseOf THEN lowerCaseOf[c] ELSE c)
                \o toLowerCase(SubSeq(s, 2, Len(s)))

\* String.prototype.includes
includes(text, s) ==
    \E i \in 1..(Len(text) - Len(s) + 1) : SubSeq(text, i, i + Len(s) - 1) = s

\* \w of a regular expression
WordChars ==
    CharsOf(LowerCaseLetters) \cup CharsOf(UpperCaseLetters) \cup CharsOf(Digits) \cup {"_"}

\* a position outside the text is not a word character
isWordChar(text, i) ==
    /\ i >= 1 /\ i <= Len(text)
    /\ charAt(text, i) \in WordChars

\* \b between positions i - 1 and i
wordBoundary(text, i) == isWordChar(text, i - 1) # isWordChar(text, i)

\* the pattern new RegExp(`\\b${keyword}\\b`) matches literally: the keyword
\* is pasted in unescaped, so a parenthesised keyword such as "(in)" is a
\* group around "in"
regexLiteral(keyword) ==
    IF Len(keyword) >= 2 /\ charAt(keyword, 1) = "(" /\ charAt(keyword, Len(keyword)) = ")"
    THEN SubSeq(keyword, 2, Len(keyword) - 1)
    ELSE keyword

\* new RegExp(`\\b${keyword}\\b`).test(text)
wordBoundaryTest(text, keyword) ==
    LET lit == regexLiteral(keyword)
    IN  \E i \in 1..(Len(text) - Len(lit) + 1) :
            /\ SubSeq(text, i, i + Len(lit) - 1) = lit
            /\ wordBoundary(text, i)
            /\ wordBoundary(text, i + Len(lit))

\* containsKeyword(text, keywords)
containsKeyword(text, keywords) ==
    IF text = "" THEN FALSE
    ELSE LET lowerText == toLowerCase(text)
         IN  \E k \in DOMAIN keywords :
                LET lowerKeyword == toLowerCase(keywords[k])
                IN  IF Len(lowerKeyword) <= 4
                    THEN wordBoundaryTest(lowerText, lowerKeyword)
                    ELSE includes(lowerText, lowerKeyword)

\* index of the last character at or before p that is not in S (0 if none)
RECURSIVE backOver(_, _, _)
backOver(text, p, S) ==
    IF p = 0 THEN 0
    ELSE IF charAt(text, p) \in S THEN backOver(text, p - 1, S)
    ELSE p

\* parseInt of a string of digits
RECURSIVE parseInt(_)
parseInt(ds) ==
    IF ds = "" THEN 0
    ELSE 10 * parseInt(SubSeq(ds, 1, Len(ds) - 1))
         + (CHOOSE d \in 0..9 : charAt(Digits, d + 1) = charAt(ds, Len(ds)))

\* combinedText.match(/(\d+)\s*\+?\s*years?/gi) mapped through parseInt:
\* every "year" that is preceded by digits, optional blanks, an optional "+"
\* and optional blanks yields the number those digits spell
yearsMentioned(text) ==
    LET lowerText == toLowerCase(text)
        number(p) ==
            LET a == backOver(lowerText, p - 1, {" "})
                b == IF a >= 1 /\ charAt(lowerText, a) = "+"
                     THEN backOver(lowerText, a - 1, {" "}) ELSE a
                c == backOver(lowerText, b, CharsOf(Digits))
            IN  IF c < b THEN parseInt(SubSeq(lowerText, c + 1, b)) ELSE NaN
    IN  {number(p) : p \in {q \in 1..(Len(lowerText) - 3) :
                                SubSeq(lowerText, q, q + 3) = "year"}} \ {NaN}

\* ---------------------------------------------------------- keyword tables
INCLUDE_KEYWORDS ==
    <<"Azure", "Microsoft Azure", "Azure DevOps", "Azure Cloud",
      "AWS", "GCP", "Google Cloud", "Multi-cloud", "Cloud Engineer",
      "Cloud Administrator", "Cloud Architect", "Cloud Operations",
      "Cloud Infrastructure", "Cloud Platform",
      "Security", "Cybersecurity", "DevSecOps", "AppSec", "InfoSec",
      "SOC", "VAPT", "Ethical Hacking", "Penetration Testing",
      "DevOps", "Kubernetes", "Docker", "Terraform", "Ansible",
      "Infrastructure", "Site Reliability", "Platform Engineering",
      "Network Engineer", "Network Security", "Network Infrastructure">>

ENTRY_LEVEL_KEYWORDS ==
    <<"Intern", "Internship", "Junior", "Entry", "Fresher", "Graduate",
      "0-1 year", "0 year", "1 year", "1-2 year", "1-2 years", "0-2 year", "0-2 years",
      "Entry Level", "Entry-Level">>

EXCLUDE_KEYWORDS ==
    <<"3+ years", "4+ years", "5+ years", "6+ years",
      "Senior", "Lead", "Manager", "Architect", "Principal">>

NON_TECHNICAL_KEYWORDS ==
    <<"Help Desk", "Helpdesk", "L1 Support", "L2 Support",
      "Desktop Support", "Service Desk",
      "Customer Support", "Customer Service", "Client Support",
      "Sales Executive", "Business Development", "BDM", "BDE",
      "Account Manager", "Relationship Manager", "Customer Success",
      "Pre-Sales", "Presales", "Social Media",
      "Data Entry", "Back Office", "Content Creator", "Community Manager",
      "Recruiter", "HR Executive", "Human Resources",
      "Manual Testing",
      "Software Developer", "Software Engineer", "Backend Developer",
      "Frontend Developer", "Full Stack Developer", "Programmer",
      "Mobile Developer", "Android Developer", "iOS Developer",
      "Machine Learning Engineer", "Data Scientist", "AI Engineer",
      "Buchhalter", "Controller">>

PURE_TECHNICAL_KEYWORDS ==
    <<"Cloud Engineer", "Cloud Administrator", "Cloud Architect", "Cloud Consultant",
      "Cloud Operations", "Cloud Support Engineer", "Cloud Analyst",
      "Solutions Architect", "Infrastructure Engineer", "Infrastructure Analyst",
      "Azure Engineer", "Azure Administrator", "Azure Architect", "Azure Consultant",
      "DevOps Engineer", "DevOps Analyst", "Platform Engineer",
      "Site Reliability Engineer", "Systems Engineer", "Systems Administrator",
      "Network Administrator", "Network Engineer",
      "Security Engineer", "Security Analyst", "Cybersecurity Engineer", "DevSecOps Engineer",
      "SOC Analyst", "Vulnerability Analyst", "Security Operations",
      "Penetration Tester", "InfoSec", "AppSec",
      "Graduate Engineer Trainee", "Associate Engineer", "Trainee Engineer",
      "Technology Analyst",
      "Cloud Associate", "Infrastructure Associate">>

INDIA_KEYWORDS == <<"India", "Bharat", ", IN", "(IN)", "Indian">>

PREFERRED_CITIES ==
    <<"Bangalore", "Bengaluru", "Pune", "Gurgaon", "Gurugram",
      "Delhi", "NCR", "Delhi NCR", "New Delhi", "Hyderabad", "Jaipur", "Noida",
      "Mumbai", "Bombay", "Chennai", "Madras", "Kolkata", "Ahmedabad", "Coimbatore",
      "Trivandrum", "Thiruvananthapuram", "Kochi", "Cochin", "Indore", "Chandigarh",
      "Anywhere in India", "PAN India", "Pan India">>

foreignIndicators ==
    <<"germany", "berlin", "munich", "frankfurt", "hamburg", "dortmund",
      "united states", "usa", "u.s.", "new york", "san francisco", "seattle",
      "united kingdom", "london", "uk ", " uk,",
      "canada", "toronto", "vancouver",
      "australia", "sydney", "melbourne",
      "singapore", "netherlands", "france", "paris",
      "europe", "european union">>

remoteIndicators == <<"remote", "work from home", "wfh", "anywhere">>

\* list.some(x => lowerLocation.includes(x.toLowerCase()))
someIncluded(lowerText, list) ==
    \E k \in DOMAIN list : includes(lowerText, toLowerCase(list[k]))

\* a location check that looks for India before it looks abroad
isIndiaLocation_indiaFirst(job) ==
    LET location == job.location
        lowerLocation == toLowerCase(location)
    IN  IF location = "" THEN FALSE
        ELSE IF includes(location, "Check post") THEN TRUE
        ELSE IF someIncluded(lowerLocation, INDIA_KEYWORDS) THEN TRUE
        ELSE IF someIncluded(lowerLocation, foreignIndicators) THEN FALSE
        ELSE \/ someIncluded(lowerLocation, PREFERRED_CITIES)
             \/ someIncluded(lowerLocation, remoteIndicators)

isIndiaLocation(job) ==
    LET location == job.location
        lowerLocation == toLowerCase(location)
    IN  IF location = "" THEN FALSE
        ELSE IF includes(location, "Check post") THEN TRUE
        ELSE IF someIncluded(lowerLocation, foreignIndicators) THEN FALSE
        ELSE \/ someIncluded(lowerLocation, INDIA_KEYWORDS)
             \/ someIncluded(lowerLocation, PREFERRED_CITIES)
             \/ someIncluded(lowerLocation, remoteIndicators)

\* the reasons filterJob returns, by stage
REASON_LOCATION == "Location not in India or preferred cities"
REASON_REDDIT == "Reddit post does not mention India"
REASON_SENIOR == "Excluded due to senior/experience requirement"
REASON_NON_TECHNICAL == "Non-technical or support role (excluded)"
REASON_NOT_TECHNICAL == "Not a pure technical role"
REASON_NO_KEYWORD == "Does not contain required keywords"
REASON_EXPERIENCE == "Requires more than 2 years experience"

NoMatch(reason) == [match |-> FALSE, reason |-> reason, matchedKeyword |-> ""]

\* `${title} ${description}`
combinedTextOf(job) == job.title \o " " \o job.description

\* job.source && job.source.includes('Reddit')
isRedditPost(job) == job.source # "" /\ includes(job.source, "Reddit")

\* an experience check without the entry-level override
experienceRejects_noOverride(combinedText) ==
    \E y \in yearsMentioned(combinedText) : y > 2

\* stage 6: !isEntryLevel && !noExperienceMentioned && !hasAcceptableExperience
experienceRejects(combinedText) ==
    LET isEntryLevel == containsKeyword(combinedText, ENTRY_LEVEL_KEYWORDS)
        years == yearsMentioned(combinedText)
        noExperienceMentioned == years = {}
        hasAcceptableExperience == \A y \in years : y <= 2
    IN  ~isEntryLevel /\ ~noExperienceMentioned /\ ~hasAcceptableExperience

\* INCLUDE_KEYWORDS.find(keyword => combinedText.toLowerCase().includes(keyword.toLowerCase()))
findMatchedKeyword(combinedText) ==
    LET lowerText == toLowerCase(combinedText)
        hits == {k \in DOMAIN INCLUDE_KEYWORDS :
                    includes(lowerText, toLowerCase(INCLUDE_KEYWORDS[k]))}
    IN  IF hits = {} THEN ""
        ELSE INCLUDE_KEYWORDS[CHOOSE k \in hits : \A h \in hits : k <= h]

\* a filter that checks the seniority exclusion before the location
filterJob_seniorityFirst(job) ==
    LET combinedText == combinedTextOf(job)
    IN  IF containsKeyword(combinedText, EXCLUDE_KEYWORDS) THEN NoMatch(REASON_SENIOR)
        ELSE IF ~isRedditPost(job) /\ ~isIndiaLocation(job) THEN NoMatch(REASON_LOCATION)
        ELSE IF isRedditPost(job)
                /\ ~(\/ containsKeyword(combinedText, INDIA_KEYWORDS)
                     \/ containsKeyword(combinedText, PREFERRED_CITIES))
             THEN NoMatch(REASON_REDDIT)
        ELSE IF containsKeyword(combinedText, NON_TECHNICAL_KEYWORDS)
             THEN NoMatch(REASON_NON_TECHNICAL)
        ELSE IF ~containsKeyword(combinedText, PURE_TECHNICAL_KEYWORDS)
             THEN NoMatch(REASON_NOT_TECHNICAL)
        ELSE IF ~containsKeyword(combinedText, INCLUDE_KEYWORDS) THEN NoMatch(REASON_NO_KEYWORD)
        ELSE IF experienceRejects(combinedText) THEN NoMatch(REASON_EXPERIENCE)
        ELSE [match |-> TRUE, reason |-> "", matchedKeyword |-> findMatchedKeyword(combinedText)]

filterJob(job) ==
    LET combinedText == combinedTextOf(job)
    IN  IF ~isRedditPost(job) /\ ~isIndiaLocation(job) THEN NoMatch(REASON_LOCATION)
        ELSE IF isRedditPost(job)
                /\ ~(\/ containsKeyword(combinedText, INDIA_KEYWORDS)
                     \/ containsKeyword(combinedText, PREFERRED_CITIES))
             THEN NoMatch(REASON_REDDIT)
        ELSE IF containsKeyword(combinedText, EXCLUDE_KEYWORDS) THEN NoMatch(REASON_SENIOR)
        ELSE IF containsKeyword(combinedText, NON_TECHNICAL_KEYWORDS)
             THEN NoMatch(REASON_NON_TECHNICAL)
        ELSE IF ~containsKeyword(combinedText, PURE_TECHNICAL_KEYWORDS)
             THEN NoMatch(REASON_NOT_TECHNICAL)
        ELSE IF ~containsKeyword(combinedText, INCLUDE_KEYWORDS) THEN NoMatch(REASON_NO_KEYWORD)
        ELSE IF experienceRejects(combinedText) THEN NoMatch(REASON_EXPERIENCE)
        ELSE [match |-> TRUE, reason |-> "", matchedKeyword |-> findMatchedKeyword(combinedText)]

\* FRESHER_FRIENDLY_COMPANIES (451-481)
FRESHER_FRIENDLY_COMPANIES ==
    <<"Microsoft", "Google", "Amazon", "AWS", "IBM", "Oracle", "SAP", "Adobe", "Apple",
      "Meta", "Facebook", "TCS", "Tata Consultancy", "Infosys", "Wipro", "HCL",
      "Tech Mahindra", "LTI", "LTIMindtree", "Mindtree", "Cognizant", "Mphasis",
      "Hexaware", "Persistent", "Coforge", "Accenture", "Deloitte", "Capgemini", "EY",
      "PwC", "KPMG", "Genpact", "DXC Technology", "Cloudflare", "Atlassian", "HashiCorp",
      "Red Hat", "VMware", "Nutanix", "Cisco", "Palo Alto Networks", "CrowdStrike",
      "Fortinet", "Zscaler", "McAfee", "Symantec", "Check Point", "Rapid7", "Qualys",
      "Trend Micro", "Zoho", "Freshworks", "PayTM", "Paytm", "PhonePe", "Razorpay",
      "Zomato", "Swiggy", "Flipkart", "Ola", "MakeMyTrip", "BookMyShow", "Nykaa", "CRED",
      "Udaan", "Meesho", "Dunzo", "Urban Company", "Walmart", "Target", "Myntra",
      "Shopify", "Amazon India", "JP Morgan", "Goldman Sachs", "Morgan Stanley",
      "Barclays", "HSBC", "Mastercard", "Visa", "American Express", "Deutsche Bank",
      "Paytm Payments Bank", "ICICI Bank", "HDFC Bank", "Salesforce", "ServiceNow",
      "Workday", "Intuit", "PayPal", "Stripe", "Square", "Qualcomm", "Intel", "AMD",
      "NVIDIA", "Broadcom", "Texas Instruments", "Chevron", "Shell", "BP", "ExxonMobil",
      "Schlumberger", "Halliburton", "Jio", "Reliance Jio", "Airtel", "Vodafone", "Nokia",
      "Ericsson", "Boston Consulting", "BCG", "McKinsey", "Bain", "Booz Allen">>

\* isFresherFriendlyCompany(job)
isFresherFriendlyCompany(job) ==
    /\ job.company_name # ""
    /\ someIncluded(toLowerCase(job.company_name), FRESHER_FRIENDLY_COMPANIES)

\* -------------------------------------------------------------- postings
\* salary and job_type are '' where the source gives none
Posting(u, t, c, d, l, ds, sal, jt) ==
    [url |-> u, title |-> t, company_name |-> c, date |-> d,
     location |-> l, description |-> ds, salary |-> sal, job_type |-> jt, source |-> ""]

\* ------------------------------------------------- the Reddit Jobs parser
\* String.prototype.slice(0, n)
sliceTo(text, n) == SubSeq(text, 1, IF Len(text) < n THEN Len(text) ELSE n)

\* String.prototype.startsWith, the test of a pattern /^literal/
startsWith(text, s) == Len(text) >= Len(s) /\ SubSeq(text, 1, Len(s)) = s

\* the test of a pattern /first.*second/ on a text of one line
matchesInOrder(text, first, second) ==
    \E i \in 1..(Len(text) - Len(first) + 1) :
        /\ SubSeq(text, i, i + Len(first) - 1) = first
        /\ includes(SubSeq(text, i + Len(first), Len(text)), second)

\* HIRING_PATTERNS.some(p => p.test(text)); every pattern has the flag i
matchesHiringPattern(text) ==
    LET lower == toLowerCase(text)
    IN  \/ startsWith(lower, "[hiring]")
        \/ startsWith(lower, "hiring:")
        \/ includes(lower, "we are hiring")
        \/ includes(lower, "were hiring") \/ includes(lower, "we're hiring")
        \/ includes(lower, "join our team")
        \/ includes(lower, "looking to hire")
        \/ includes(lower, "open position")
        \/ includes(lower, "job opening")
        \/ wordBoundaryTest(lower, "referral")

\* FOR_HIRE_PATTERNS.some(p => p.test(text))
matchesForHirePattern(text) ==
    LET lower == toLowerCase(text)
    IN  \/ startsWith(lower, "[for hire]")
        \/ startsWith(lower, "for hire:")
        \/ wordBoundaryTest(lower, "available for")
        \/ matchesInOrder(lower, "looking for", "internship")
        \/ matchesInOrder(lower, "seeking", "role")
        \/ matchesInOrder(lower, "seeking", "position")
        \/ matchesInOrder(lower, "open to", "opportunity")
        \/ includes(lower, "actively looking")
        \/ wordBoundaryTest(lower, "i am looking")
        \/ wordBoundaryTest(lower, "i'm looking")

\* the phrases of an offer looked for in the first 500 characters of the body
BODY_PHRASES ==
    <<"we are looking for", "you will be responsible", "responsibilities include",
      "what you will do", "apply now", "send your resume", "dm your resume">>

\* the three groups of checks of the filter callback
rejectedAsSeeker(post) ==
    LET flair == toLowerCase(post.link_flair_text)
    IN  \/ includes(flair, "for hire") \/ includes(flair, "available")
        \/ matchesForHirePattern(post.title)
        \/ matchesForHirePattern(sliceTo(post.selftext, 300))

acceptedByTitle(post) == matchesHiringPattern(post.title)

acceptedByBody(post) == someIncluded(toLowerCase(sliceTo(post.selftext, 500)), BODY_PHRASES)

\* a classifier that looks at the hiring patterns first
isJobOffer_hiringFirst(post) ==
    IF acceptedByTitle(post) THEN TRUE
    ELSE IF rejectedAsSeeker(post) THEN FALSE
    ELSE acceptedByBody(post)

\* the filter callback of the parser (115-139)
isJobOffer(post) ==
    IF rejectedAsSeeker(post) THEN FALSE
    ELSE IF acceptedByTitle(post) THEN TRUE
    ELSE IF acceptedByBody(post) THEN TRUE
    ELSE FALSE

\* String.prototype.trim for blanks
RECURSIVE trim(_)
trim(text) ==
    IF text = "" THEN ""
    ELSE IF charAt(text, 1) = " " THEN trim(SubSeq(text, 2, Len(text)))
    ELSE IF charAt(text, Len(text)) = " " THEN trim(SubSeq(text, 1, Len(text) - 1))
    ELSE text

\* the map callback of the parser (140-150); created_utc is a number of
\* seconds, 0 where the post has none
redditJob(post) ==
    [url |-> "https://reddit.com" \o post.permalink,
     title |-> trim(IF startsWith(toLowerCase(post.title), "[hiring]")
                    THEN SubSeq(post.title, 9, Len(post.title)) ELSE post.title),
     company_name |-> "Via Reddit",
     date |-> IF post.created_utc = 0 THEN Absent ELSE Num(post.created_utc),
     location |-> "Check post for details",
     description |-> IF post.selftext # "" THEN post.selftext ELSE post.title,
     salary |-> "",
     job_type |-> IF post.link_flair_text # "" THEN post.link_flair_text ELSE "See post",
     source |-> "Reddit r/" \o post.subreddit]

\* parser(data): posts.filter(...).map(...)
RECURSIVE redditParser(_)
redditParser(posts) ==
    IF posts = <<>> THEN <<>>
    ELSE (IF isJobOffer(Head(posts)) THEN <<redditJob(Head(posts))>> ELSE <<>>)
            \o redditParser(Tail(posts))

PA ==
    Posting("a", "Azure Cloud Engineer - Fresher", "Microsoft", Day(0), "Bangalore, India",
            "0-1 years experience, Azure, DevOps", "", "")
PB == Posting("b", "Azure Engineer", "", Absent, "Remote", "", "10 LPA", "Full-time")
PC == Posting("c", "Sales Executive", "c", Day(2), "Berlin", "", "", "")

Postings == {PA, PB, PC}

RECURSIVE SeqsUpTo(_, _)
SeqsUpTo(S, n) ==
    IF n = 0 THEN {<<>>}
    ELSE LET shorter == SeqsUpTo(S, n - 1)
         IN  shorter \cup {Append(s, x) : s \in {q \in shorter : Len(q) = n - 1}, x \in S}

\* what the parser of one source can return
Batches == SeqsUpTo(Postings, MaxBatch)

\* names of the first entries of JOB_SOURCES whose parsers set no source tag
SOURCE_NAMES == <<"Arbeitnow", "RemoteOK", "JobIcy", "Remotive">>

SourceName(k) == SOURCE_NAMES[k]

\* the postings as fetchJobs tags them
FetchedPostings ==
    {[p EXCEPT !.source = s] :
        p \in Postings, s \in {""} \cup {SOURCE_NAMES[k] : k \in DOMAIN SOURCE_NAMES}}

\* filterJob over the postings the sources return, evaluated once
filterResults == [job \in FetchedPostings |-> filterJob(job)]

\* an id that also hashes the source tag
generateStableId_withSource(job) == job.url \o job.title \o job.company_name \o job.source

\* sha256 over url + title + company_name; the digest is taken as injective
generateStableId(job) == job.url \o job.title \o job.company_name


bonus(cond, n) == IF cond THEN n ELSE 0

\* a score without the fresher indicators
fresherIndicators_none(text) == 0

\* keyword weights in which only the first keyword found counts
keywordWeights_firstOnly(text) ==
    IF includes(text, "azure") THEN 30
    ELSE IF includes(text, "cloud") THEN 20
    ELSE IF includes(text, "security") THEN 20
    ELSE IF includes(text, "devsecops") THEN 25
    ELSE IF includes(text, "devops") THEN 15
    ELSE IF includes(text, "cybersecurity") THEN 20 ELSE 0

\* keyword weights (666-672)
keywordWeights(text) ==
    bonus(includes(text, "azure"), 30)
    + bonus(includes(text, "cloud"), 20)
    + bonus(includes(text, "security"), 20)
    + bonus(includes(text, "devsecops"), 25)
    + bonus(includes(text, "devops"), 15)
    + bonus(includes(text, "cybersecurity"), 20)

\* fresher indicators (674-677)
fresherIndicators(text) ==
    bonus(includes(text, "fresher") \/ includes(text, "intern"), 20)
    + bonus(includes(text, "0-1") \/ includes(text, "entry level")
                \/ includes(text, "entry-level"), 15)
    + bonus(includes(text, "graduate") \/ includes(text, "internship"), 15)

\* recency bonus (683-686)
recencyBonus(daysSincePost) ==
    IF daysSincePost <= 1 THEN 20
    ELSE IF daysSincePost <= 3 THEN 10
    ELSE IF daysSincePost <= 7 THEN 5 ELSE 0

\* location bonus (692-695)
locationBonus(location) ==
    bonus(includes(location, "bangalore") \/ includes(location, "bengaluru"), 5)
    + bonus(includes(location, "pune") \/ includes(location, "hyderabad"), 5)
    + bonus(includes(location, "remote"), 8)

scoreJob(job, t) ==
    LET text == toLowerCase(combinedTextOf(job))
    IN  keywordWeights(text)
        + fresherIndicators(text)
        + bonus(isFresherFriendlyCompany(job), 15)
        + recencyBonus(getDaysSince(job.date, t))
        + bonus(job.salary # "" /\ job.salary # "Not disclosed", 10)
        + locationBonus(toLowerCase(job.location))
        + bonus(job.job_type # "" /\ includes(toLowerCase(job.job_type), "full-time"), 5)

\* scoreJob over the postings the sources return, evaluated once
scoreResults == [job \in FetchedPostings |-> [t \in 1..MaxTime |-> scoreJob(job, t)]]

\* process.env.JOB_WINDOW || 'MONTH', then TIME_WINDOWS[..] || MONTH
getTimeWindow(cfg) ==
    IF cfg \in DOMAIN TIME_WINDOWS THEN TIME_WINDOWS[cfg] ELSE TIME_WINDOWS.MONTH

\* Object.keys(TIME_WINDOWS).find(key => TIME_WINDOWS[key] === days) || 'DAY'
windowNameOf(days) ==
    IF \E key \in DOMAIN TIME_WINDOWS : TIME_WINDOWS[key] = days
    THEN CHOOSE key \in DOMAIN TIME_WINDOWS : TIME_WINDOWS[key] = days
    ELSE "DAY"

Min(a, b) == IF a < b THEN a ELSE b

\* Array.prototype.sort with (a, b) => b.relevanceScore - a.relevanceScore:
\* descending by score, stable for equal scores
RECURSIVE InsertByScore(_, _)
InsertByScore(sorted, job) ==
    IF sorted = <<>> THEN <<job>>
    ELSE IF Head(sorted).relevanceScore >= job.relevanceScore
         THEN <<Head(sorted)>> \o InsertByScore(Tail(sorted), job)
         ELSE <<job>> \o sorted

\* a list left in filter order
SortByScore_unsorted(jobs) == jobs

RECURSIVE SortByScore(_)
SortByScore(jobs) ==
    IF jobs = <<>> THEN <<>>
    ELSE InsertByScore(SortByScore(SubSeq(jobs, 1, Len(jobs) - 1)), jobs[Len(jobs)])

\* ----------------------------------------------------------------- state
VARIABLES
    controller,     \* "window": the jobChecker.js handler; "incremental": scan controller
    now,            \* the wall clock, in days
    runNo,          \* timer invocations so far
    env,            \* process.env of the running invocation
    processed,      \* table jobalerts: the entities of partition "jobs"
    meta,           \* table jobmetadata: <<>> or <<entity meta/lastRun>>
    pc,             \* position of the handler
    result,         \* "none" while running, "ok" completed, "failed" rethrown
    srcIdx,         \* fetchJobs: index of the next source
    allJobs,        \* fetchJobs: jobs collected so far
    jobsToProcess,  \* after the time filter and MAX_SCAN_LIMIT
    idx,            \* filter loop position
    seenInThisRun,  \* in-memory dedup set
    matchedJobs,    \* matched and scored jobs, sorted before sending
    sendIdx,        \* alert loop position
    counts,         \* processedCount, sentCount, errorCount, duplicatesSkipped, totalAfterTimeFilter
    outbox,         \* messages handed to the Telegram API in this run, in order
    faults,         \* failures of external services so far
    trace,          \* observations of this run and of the previous one
    probe,          \* arguments handed to a function called on its own
    verdict         \* what that call returned

vars == <<controller, now, runNo, env, processed, meta, pc, result, srcIdx, allJobs,
          jobsToProcess, idx, seenInThisRun, matchedJobs, sendIdx, counts, outbox, faults, trace,
          probe, verdict>>

runLocals == <<srcIdx, allJobs, jobsToProcess, idx, seenInThisRun, matchedJobs, sendIdx, counts>>

Envs == [botToken : BOOLEAN, chatId : BOOLEAN, storage : BOOLEAN, JOB_WINDOW : {"DAY", ""}]

ZeroCounts == [processedCount |-> 0, sentCount |-> 0, errorCount |-> 0,
               duplicatesSkipped |-> 0, totalAfterTimeFilter |-> 0]

EmptyTrace ==
    [responses |-> <<>>,        \* per source: <<"fail">> or <<"ok", batch>>
     fetchedAt |-> Null,        \* clock when the time filter ran
     lastRunUsed |-> Null,      \* watermark the time filter compared against
     lookupErr |-> {},          \* slugs whose existence check threw
     sendFailed |-> {},         \* slugs whose alert send threw
     markCalled |-> {},         \* slugs markJobAsProcessed was called for
     markFailed |-> {},         \* slugs whose createEntity threw
     metaWrite |-> "none",      \* "ok" / "failed" once updateMetadata ran
     metaAt |-> Null,           \* clock when updateMetadata ran
     startProcessed |-> {},     \* table jobalerts at the start of the run
     startMeta |-> <<>>,        \* table jobmetadata at the start of the run
     prevSendFailed |-> {},     \* sendFailed of the previous run
     prevFetchedAt |-> Null,    \* fetchedAt of the previous run
     prevMissed |-> {},         \* dated postings later than prevFetchedAt that
                                \*     the previous run's fetch did not return
     prevMetaWrite |-> "none"]  \* metaWrite of the previous run

NoProbe ==
    [kind |-> "none", jobs |-> <<>>, lastRun |-> Null, days |-> 0, job |-> PA,
     text |-> "", keywords |-> <<>>, posts |-> <<>>]

NoVerdict ==
    [kept |-> <<>>, within |-> <<>>, newer |-> <<>>, filter |-> NoMatch(""),
     contains |-> FALSE, ids |-> <<>>, scores |-> <<>>, parsed |-> <<>>]

\* everything but the mode of the scan controller, the clock, the position of
\* the handler and the probe
InitRest ==
    /\ runNo = 0
    /\ env = [botToken |-> TRUE, chatId |-> TRUE, storage |-> TRUE, JOB_WINDOW |-> ""]
    /\ processed = {}
    /\ meta = <<>>
    /\ result = "none"
    /\ srcIdx = 1
    /\ allJobs = <<>>
    /\ jobsToProcess = <<>>
    /\ idx = 1
    /\ seenInThisRun = {}
    /\ matchedJobs = <<>>
    /\ sendIdx = 1
    /\ counts = ZeroCounts
    /\ outbox = <<>>
    /\ faults = 0
    /\ trace = EmptyTrace
    /\ verdict = NoVerdict

InitWith(c) ==
    /\ controller = c
    /\ now = 1
    /\ pc = "idle"
    /\ probe = NoProbe
    /\ InitRest

Init == InitWith("window")

InitIncr == InitWith("incremental")

\* ------------------------------------------------------- store operations
\* getEntity(PARTITION_KEY, slug) either answers or throws; o = "error" is
\* any failure other than 404
RowKeys(table) == {e.rowKey : e \in table}

\* an existence check that never finds the row
isJobProcessed_neverFound(table, slug, o) == FALSE

\* an existence check that answers "processed" when the lookup fails
isJobProcessed_failClosed(table, slug, o) ==
    IF o = "error" THEN TRUE
    ELSE IF slug \in RowKeys(table) THEN TRUE
    ELSE FALSE

isJobProcessed(table, slug, o) ==
    IF o = "error" THEN FALSE
    ELSE IF slug \in RowKeys(table) THEN TRUE
    ELSE FALSE

\* createEntity throws 409 when the row exists and on any store failure
\* (o = "error"); markJobAsProcessed swallows both
markJobAsProcessed(table, job, o, t) ==
    LET entity == [rowKey |-> job.slug, title |-> job.title,
                   company |-> IF job.company_name = "" THEN "N/A" ELSE job.company_name,
                   processedAt |-> t, url |-> job.url]
    IN  IF o = "error" \/ job.slug \in RowKeys(table) THEN table
        ELSE table \cup {entity}

\* a metadata write that creates the row but never replaces it
updateMetadata_createOnly(metaTable, stats, o, t) ==
    IF o = "error" \/ metaTable # <<>> THEN metaTable
    ELSE <<[lastRunAt |-> t, totalSent |-> stats.totalSent]>>

\* upsertEntity(entity, 'Replace'); a store failure is swallowed
updateMetadata(metaTable, stats, o, t) ==
    IF o = "error" THEN metaTable
    ELSE <<[lastRunAt |-> t, totalSent |-> stats.totalSent]>>

\* getEntity('meta', 'lastRun'): the entity, or null on 404 and on any error
getLastRunMetadata(metaTable, o) ==
    IF o = "error" \/ metaTable = <<>> THEN Null ELSE metaTable[1].lastRunAt

\* Incremental Scan Controller: the watermark handed to fetchJobsIncremental.
\* The jobChecker.js handler ("window") never reads the metadata table and
\* always filters by the time window; the scan controller ("incremental")
\* passes the persisted lastRunAt.
ScanController(c, metaTable, o) ==
    IF c = "incremental" THEN getLastRunMetadata(metaTable, o) ELSE Null

\* fetchJobsIncremental after its fetchJobsFromAllSources call
fetchJobsIncremental(jobs, lastRunTimestamp, fallbackDays, t) ==
    IF lastRunTimestamp = Null
    THEN SelectSeq(jobs, LAMBDA job : isWithinTimeWindow(job.date, fallbackDays, t))
    ELSE SelectSeq(jobs, LAMBDA job : isJobNewerThan(job.date, lastRunTimestamp))

\* (url, title, company_name) of a posting
Triple(job) == <<job.url, job.title, job.company_name>>

Copies(jobs, tr) == {i \in DOMAIN jobs : Triple(jobs[i]) = tr}

\* ---------------------------------------------------------------- actions
Msg(kind, slug, ok) == [kind |-> kind, slug |-> slug, ok |-> ok]

\* what a call to an external service (a source, the store, Telegram) can do
Outcomes == IF faults < MaxFaults THEN {"ok", "error"} ELSE {"ok"}

Charge(o) == faults' = IF o = "error" THEN faults + 1 ELSE faults

Fatal ==
    /\ pc' = "done"
    /\ result' = "failed"

\* the timer fires: the handler's local declarations (jobChecker.js 1093-1108)
StartRun ==
    /\ pc \in {"idle", "done"}
    /\ runNo < MaxRuns
    /\ runNo' = runNo + 1
    /\ env' \in Envs
    /\ pc' = "notifyStart"
    /\ result' = "none"
    /\ srcIdx' = 1
    /\ allJobs' = <<>>
    /\ jobsToProcess' = <<>>
    /\ idx' = 1
    /\ seenInThisRun' = {}
    /\ matchedJobs' = <<>>
    /\ sendIdx' = 1
    /\ counts' = ZeroCounts
    /\ outbox' = <<>>
    /\ trace' = [EmptyTrace EXCEPT !.startProcessed = processed,
                                   !.startMeta = meta,
                                   !.prevSendFailed = trace.sendFailed,
                                   !.prevFetchedAt = trace.fetchedAt,
                                   !.prevMissed =
                                        IF trace.fetchedAt = Null THEN {}
                                        ELSE {p \in Postings :
                                                /\ Parseable(p.date)
                                                /\ p.date.v > trace.fetchedAt
                                                /\ Copies(allJobs, Triple(p)) = {}},
                                   !.prevMetaWrite = trace.metaWrite]
    /\ UNCHANGED <<probe, verdict, controller, now, processed, meta, faults>>

\* a handler that checks the storage connection string before it notifies
NotifyStart_storageFirst ==
    /\ pc = "notifyStart"
    /\ IF ~env.botToken \/ ~env.chatId \/ ~env.storage
       THEN Fatal /\ UNCHANGED <<outbox, faults>>
       ELSE /\ \E o \in Outcomes :
                /\ outbox' = Append(outbox, Msg("started", "", o = "ok"))
                /\ Charge(o)
            /\ pc' = "initStorage"
            /\ UNCHANGED result
    /\ UNCHANGED <<probe, verdict, controller, now, runNo, env, processed, meta, runLocals, trace>>

\* sendTelegramNotification of the run-started message (1119-1123)
NotifyStart ==
    /\ pc = "notifyStart"
    /\ IF ~env.botToken \/ ~env.chatId
       THEN Fatal /\ UNCHANGED <<outbox, faults>>
       ELSE /\ \E o \in Outcomes :
                /\ outbox' = Append(outbox, Msg("started", "", o = "ok"))
                /\ Charge(o)
            /\ pc' = "initStorage"
            /\ UNCHANGED result
    /\ UNCHANGED <<probe, verdict, controller, now, runNo, env, processed, meta, runLocals, trace>>

\* a storage initialisation without the connection string check
InitStorage_unchecked ==
    /\ pc = "initStorage"
    /\ pc' = "fetch"
    /\ UNCHANGED <<probe, verdict, controller, now, runNo, env, processed, meta, result, runLocals,
                   outbox, faults, trace>>

\* connection string check, table clients, createTable (1125-1151)
InitStorage ==
    /\ pc = "initStorage"
    /\ IF ~env.storage
       THEN Fatal
       ELSE pc' = "fetch" /\ UNCHANGED result
    /\ UNCHANGED <<probe, verdict, controller, now, runNo, env, processed, meta, runLocals, outbox, faults, trace>>

\* a fetch loop that a failing source ends
FetchSource_stopsOnFailure ==
    /\ pc = "fetch"
    /\ srcIdx <= NumSources
    /\ \/ \E batch \in Batches :
            LET jobsWithSource ==
                    [i \in 1..Len(batch) |->
                        [batch[i] EXCEPT !.source =
                            IF batch[i].source = "" THEN SourceName(srcIdx) ELSE batch[i].source]]
            IN  /\ allJobs' = allJobs \o jobsWithSource
                /\ trace' = [trace EXCEPT !.responses = Append(@, <<"ok", jobsWithSource>>)]
                /\ srcIdx' = srcIdx + 1
                /\ UNCHANGED faults
       \/ /\ "error" \in Outcomes
          /\ Charge("error")
          /\ allJobs' = allJobs
          /\ trace' = [trace EXCEPT !.responses = Append(@, <<"fail">>)]
          /\ srcIdx' = NumSources + 1
    /\ UNCHANGED <<probe, verdict, controller, now, runNo, env, processed, meta, pc, result,
                   jobsToProcess, idx, seenInThisRun, matchedJobs, sendIdx, counts, outbox>>

\* one iteration of the loop of fetchJobs / fetchJobsFromAllSources
FetchSource ==
    /\ pc = "fetch"
    /\ srcIdx <= NumSources
    /\ \/ \E batch \in Batches :
            LET jobsWithSource ==
                    [i \in 1..Len(batch) |->
                        [batch[i] EXCEPT !.source =
                            IF batch[i].source = "" THEN SourceName(srcIdx) ELSE batch[i].source]]
            IN  /\ allJobs' = allJobs \o jobsWithSource
                /\ trace' = [trace EXCEPT !.responses = Append(@, <<"ok", jobsWithSource>>)]
                /\ UNCHANGED faults
       \/ /\ "error" \in Outcomes
          /\ Charge("error")
          /\ allJobs' = allJobs
          /\ trace' = [trace EXCEPT !.responses = Append(@, <<"fail">>)]
    /\ srcIdx' = srcIdx + 1
    /\ UNCHANGED <<probe, verdict, controller, now, runNo, env, processed, meta, pc, result,
                   jobsToProcess, idx, seenInThisRun, matchedJobs, sendIdx, counts, outbox>>

\* a scan without the limit
sliceToScanLimit_unlimited(jobs) == jobs

\* jobsWithinTimeWindow.slice(0, MAX_SCAN_LIMIT)
sliceToScanLimit(jobs) == SubSeq(jobs, 1, Min(Len(jobs), MAX_SCAN_LIMIT))

\* time filter and MAX_SCAN_LIMIT (1155-1171); under the scan controller the
\* filter is the one of fetchJobsIncremental against the persisted lastRunAt
TimeFilter ==
    /\ pc = "fetch"
    /\ srcIdx > NumSources
    /\ \E o \in (IF controller = "incremental" THEN Outcomes ELSE {"ok"}) :
        LET timeWindowDays == getTimeWindow(env.JOB_WINDOW)
            lastRunTimestamp == ScanController(controller, meta, o)
            jobsWithinTimeWindow ==
                fetchJobsIncremental(allJobs, lastRunTimestamp, timeWindowDays, now)
        IN  /\ jobsToProcess' = sliceToScanLimit(jobsWithinTimeWindow)
            /\ counts' = [counts EXCEPT !.totalAfterTimeFilter = Len(jobsWithinTimeWindow)]
            /\ trace' = [trace EXCEPT !.fetchedAt = now, !.lastRunUsed = lastRunTimestamp]
            /\ Charge(o)
    /\ pc' = "filter"
    /\ UNCHANGED <<probe, verdict, controller, now, runNo, env, processed, meta, result, srcIdx, allJobs,
                   idx, seenInThisRun, matchedJobs, sendIdx, outbox>>

\* one iteration of the filter loop (1175-1210)
FilterStep ==
    /\ pc = "filter"
    /\ idx <= Len(jobsToProcess)
    /\ LET job == jobsToProcess[idx]
           jobSlug == generateStableId(job)
           filterResult == filterResults[job]
       IN  IF jobSlug \in seenInThisRun
           THEN /\ counts' = [counts EXCEPT !.processedCount = @ + 1,
                                            !.duplicatesSkipped = @ + 1]
                /\ UNCHANGED <<seenInThisRun, matchedJobs, faults, trace>>
           ELSE /\ seenInThisRun' = seenInThisRun \cup {jobSlug}
                /\ IF ~filterResult.match
                   THEN /\ counts' = [counts EXCEPT !.processedCount = @ + 1]
                        /\ UNCHANGED <<matchedJobs, faults, trace>>
                   ELSE \E o \in Outcomes :
                        /\ Charge(o)
                        /\ trace' = IF o = "error"
                                    THEN [trace EXCEPT !.lookupErr = @ \cup {jobSlug}]
                                    ELSE trace
                        /\ IF isJobProcessed(processed, jobSlug, o)
                           THEN /\ counts' = [counts EXCEPT !.processedCount = @ + 1,
                                                            !.duplicatesSkipped = @ + 1]
                                /\ UNCHANGED matchedJobs
                           ELSE /\ counts' = [counts EXCEPT !.processedCount = @ + 1]
                                /\ matchedJobs' = Append(matchedJobs,
                                        [url |-> job.url, title |-> job.title,
                                         company_name |-> job.company_name,
                                         date |-> job.date, location |-> job.location,
                                         description |-> job.description,
                                         salary |-> job.salary, job_type |-> job.job_type,
                                         source |-> job.source,
                                         slug |-> jobSlug,
                                         matchedKeyword |-> filterResult.matchedKeyword,
                                         relevanceScore |-> scoreResults[job][now]])
    /\ idx' = idx + 1
    /\ UNCHANGED <<probe, verdict, controller, now, runNo, env, processed, meta, pc, result, srcIdx,
                   allJobs, jobsToProcess, sendIdx, outbox>>

\* the best MAX_JOBS matches only
topJobsOf_capped(sorted) == SubSeq(sorted, 1, Min(Len(sorted), MAX_JOBS))

\* const topJobs = matchedJobs (1217-1218): all matched jobs, no limit
topJobsOf(sorted) == sorted

\* a handler that enters the alert branch whatever topJobs.length is
SortMatched_alwaysAlertBranch ==
    /\ pc = "filter"
    /\ idx > Len(jobsToProcess)
    /\ matchedJobs' = SortByScore(matchedJobs)
    /\ pc' = "send"
    /\ UNCHANGED <<probe, verdict, controller, now, runNo, env, processed, meta, result, srcIdx, allJobs,
                   jobsToProcess, idx, seenInThisRun, sendIdx, counts, outbox, faults, trace>>

\* matchedJobs.sort(...) and the branch on topJobs.length (1212-1235)
SortMatched ==
    /\ pc = "filter"
    /\ idx > Len(jobsToProcess)
    /\ matchedJobs' = topJobsOf(SortByScore(matchedJobs))
    /\ pc' = IF Len(matchedJobs) > 0 THEN "send" ELSE "noJobs"
    /\ UNCHANGED <<probe, verdict, controller, now, runNo, env, processed, meta, result, srcIdx, allJobs,
                   jobsToProcess, idx, seenInThisRun, sendIdx, counts, outbox, faults, trace>>

\* a failed send, taken over by afterSend to leave the handler
afterSend_rethrow(o) == IF o = "ok" THEN "mark" ELSE "done"

\* a failed send that still reaches markJobAsProcessed
afterSend_markAnyway(o) == "mark"

\* try { send; mark; sentCount++ } catch { errorCount++ } (1239-1246): where
\* the alert loop continues after sendTelegramMessage returned or threw
afterSend(o) == IF o = "ok" THEN "mark" ELSE "send"

\* sendTelegramMessage for topJobs[sendIdx] (1238-1240, 1243-1246)
SendAlert ==
    /\ pc = "send"
    /\ sendIdx <= Len(matchedJobs)
    /\ LET job == matchedJobs[sendIdx]
           credentials == env.botToken /\ env.chatId
       IN  \E o \in (IF credentials THEN Outcomes ELSE {"error"}) :
            /\ faults' = IF credentials /\ o = "error" THEN faults + 1 ELSE faults
            /\ outbox' = IF credentials
                         THEN Append(outbox, Msg("alert", job.slug, o = "ok"))
                         ELSE outbox
            /\ trace' = IF o = "ok" THEN trace
                        ELSE [trace EXCEPT !.sendFailed = @ \cup {job.slug}]
            /\ pc' = afterSend(o)
            /\ result' = IF afterSend(o) = "done" THEN "failed" ELSE result
            /\ IF afterSend(o) = "send"
               THEN /\ counts' = [counts EXCEPT !.errorCount = @ + 1]
                    /\ sendIdx' = sendIdx + 1
               ELSE UNCHANGED <<sendIdx, counts>>
    /\ UNCHANGED <<probe, verdict, controller, now, runNo, env, processed, meta, srcIdx, allJobs,
                   jobsToProcess, idx, seenInThisRun, matchedJobs>>

\* a markJobAsProcessed whose store error reaches the catch of the alert loop
MarkProcessed_throws ==
    /\ pc = "mark"
    /\ LET job == matchedJobs[sendIdx]
       IN  \E o \in Outcomes :
            /\ Charge(o)
            /\ processed' = markJobAsProcessed(processed, job, o, now)
            /\ trace' = [trace EXCEPT
                            !.markCalled = @ \cup {job.slug},
                            !.markFailed = IF o = "error" \/ job.slug \in RowKeys(processed)
                                           THEN @ \cup {job.slug} ELSE @]
            /\ counts' = IF o = "error" \/ job.slug \in RowKeys(processed)
                         THEN [counts EXCEPT !.errorCount = @ + 1]
                         ELSE [counts EXCEPT !.sentCount = @ + 1]
    /\ sendIdx' = sendIdx + 1
    /\ pc' = "send"
    /\ UNCHANGED <<probe, verdict, controller, now, runNo, env, meta, result, srcIdx, allJobs,
                   jobsToProcess, idx, seenInThisRun, matchedJobs, outbox>>

\* markJobAsProcessed and sentCount++ (1241-1242)
MarkProcessed ==
    /\ pc = "mark"
    /\ LET job == matchedJobs[sendIdx]
       IN  \E o \in Outcomes :
            /\ Charge(o)
            /\ processed' = markJobAsProcessed(processed, job, o, now)
            /\ trace' = [trace EXCEPT
                            !.markCalled = @ \cup {job.slug},
                            !.markFailed = IF o = "error" \/ job.slug \in RowKeys(processed)
                                           THEN @ \cup {job.slug} ELSE @]
    /\ counts' = [counts EXCEPT !.sentCount = @ + 1]
    /\ sendIdx' = sendIdx + 1
    /\ pc' = "send"
    /\ UNCHANGED <<probe, verdict, controller, now, runNo, env, meta, result, srcIdx, allJobs,
                   jobsToProcess, idx, seenInThisRun, matchedJobs, outbox>>

\* the run-summary message after the alert loop (1249-1253)
SendSummary ==
    /\ pc = "send"
    /\ sendIdx > Len(matchedJobs)
    /\ IF ~env.botToken \/ ~env.chatId
       THEN Fatal /\ UNCHANGED <<outbox, faults>>
       ELSE /\ \E o \in Outcomes :
                /\ outbox' = Append(outbox, Msg("summary", "", o = "ok"))
                /\ Charge(o)
            /\ pc' = "meta"
            /\ UNCHANGED result
    /\ UNCHANGED <<probe, verdict, controller, now, runNo, env, processed, meta, runLocals, trace>>

\* the "No New Jobs" message (1254-1262)
SendNoJobs ==
    /\ pc = "noJobs"
    /\ IF ~env.botToken \/ ~env.chatId
       THEN Fatal /\ UNCHANGED <<outbox, faults>>
       ELSE /\ \E o \in Outcomes :
                /\ outbox' = Append(outbox, Msg("noJobs", "", o = "ok"))
                /\ Charge(o)
            /\ pc' = "meta"
            /\ UNCHANGED result
    /\ UNCHANGED <<probe, verdict, controller, now, runNo, env, processed, meta, runLocals, trace>>

\* updateMetadata with the run's stats, then the handler returns (1264-1289)
UpdateMeta ==
    /\ pc = "meta"
    /\ \E o \in Outcomes :
        LET timeWindowDays == getTimeWindow(env.JOB_WINDOW)
            stats == [windowUsed |-> windowNameOf(timeWindowDays),
                      totalFetched |-> Len(allJobs),
                      totalAfterTimeFilter |-> counts.totalAfterTimeFilter,
                      totalMatched |-> Len(matchedJobs),
                      duplicatesSkipped |-> counts.duplicatesSkipped,
                      totalSent |-> counts.sentCount]
        IN  /\ meta' = updateMetadata(meta, stats, o, now)
            /\ trace' = [trace EXCEPT !.metaWrite = IF o = "ok" THEN "ok" ELSE "failed",
                                      !.metaAt = now]
            /\ Charge(o)
    /\ pc' = "done"
    /\ result' = "ok"
    /\ UNCHANGED <<probe, verdict, controller, now, runNo, env, processed, runLocals, outbox>>

\* the wall clock advances
Tick ==
    /\ pc \in {"idle", "done", "meta"}
    /\ now < MaxTime
    /\ now' = now + 1
    /\ UNCHANGED <<probe, verdict, controller, runNo, env, processed, meta, pc, result, runLocals,
                   outbox, faults, trace>>

Next ==
    \/ StartRun
    \/ NotifyStart
    \/ InitStorage
    \/ FetchSource
    \/ TimeFilter
    \/ FilterStep
    \/ SortMatched
    \/ SendAlert
    \/ MarkProcessed
    \/ SendSummary
    \/ SendNoJobs
    \/ UpdateMeta
    \/ Tick

Spec == Init /\ [][Next]_vars

SpecIncr == InitIncr /\ [][Next]_vars

\* ------------------------------------------- the pure functions on their own
\* posting dates a parser can hand over
ProbeDates == {Absent, BadDate} \cup {Day(n) : n \in 0..MaxDate} \cup {Num(n) : n \in 0..MaxDate}

\* lastRunTimestamp: none, a string that does not parse, or the day of a run
ProbeWatermarks == {Null, NaN} \cup 0..MaxDate

DatedJob(d) == Posting("u", "Azure Engineer", "c", d, "Pune, India", "", "", "")

ProbeLocations ==
    {"", "Pune, India", "Remote", "Berlin, Germany", "Acme India, Berlin",
     "Remote, Berlin", "Check post for details", "Berlin (Check post)"}

ProbeTitles ==
    {"Cloud Engineer", "Senior Cloud Engineer", "Cloud Engineer Fresher",
     "Cloud Analyst", "Sales Executive", "Office Assistant"}

ProbeDescriptions ==
    {"", "Azure", "Azure, 2 years", "Azure, 5 years", "Azure, 5+ years",
     "Azure, 10 years experience", "Azure, internal tools, 7 years", "Azure in Pune",
     "Azure in Berlin", "Knows the laws"}

ProbeSources == {"Arbeitnow", "Reddit r/forhire"}

ProbeJobs ==
    {[Posting("u", t, "c", Absent, l, ds, "", "") EXCEPT !.source = src] :
        t \in ProbeTitles, l \in ProbeLocations, ds \in ProbeDescriptions, src \in ProbeSources}

\* texts searched for keywords
ProbeTexts ==
    {"", "SOC analyst", "Social media", "AWS, GCP", "Laws of physics",
     "Cloud Engineer", "Pune, IN", "Pune (IN)", "Pune , IN", "Developer in Berlin",
     "Indiana", "Berlin", "INDIA"}

\* keyword lists handed to containsKeyword: rule tables, and single entries of
\* them
ProbeKeywordLists ==
    {INCLUDE_KEYWORDS, INDIA_KEYWORDS, <<"(IN)">>, <<", IN">>, <<"SOC">>, <<"India">>}

\* postings handed to generateStableId: url, title and company_name vary, a
\* missing field is the empty string (job.url || '')
ProbeTriples ==
    {Posting(u, t, c, Absent, "Pune, India", "", "", "") :
        u \in {"", "a", "ab"}, t \in {"", "c", "bc"}, c \in {"", "c"}}

\* the keywords scoreJob recognizes in the text (666-677)
SCORE_KEYWORDS ==
    {"azure", "cloud", "security", "devsecops", "devops", "cybersecurity", "fresher",
     "intern", "0-1", "entry level", "entry-level", "graduate", "internship"}

\* postings handed to scoreJob
ProbeScored ==
    {Posting("u", t, c, d, l, ds, sal, "") :
        t \in {"Cloud Engineer", "Support Engineer"},
        c \in {"c", "Microsoft"},
        d \in {Absent, Day(0)},
        l \in {"Bangalore, India"},
        ds \in {"", "Azure", "DevSecOps", "Security intern, entry level"},
        sal \in {"", "10 LPA"}}

\* the posting with the keyword added to its description
withKeyword(job, keyword) ==
    [job EXCEPT !.description = IF @ = "" THEN keyword ELSE @ \o " " \o keyword]

\* children of the listing Reddit returns
ProbePosts ==
    [title : {"[Hiring] DevOps Engineer", "[For Hire] DevOps Engineer",
              "[Hiring] Engineer available for contract", "DevOps Engineer in Pune",
              "We are hiring, I am looking forward", "Seeking a cloud role"},
     selftext : {"", "Apply now", "We are looking for an engineer, send your resume",
                 "I am looking for work", "Actively looking. Responsibilities include none"},
     link_flair_text : {"", "Hiring", "For Hire"},
     permalink : {"/r/forhire/1"},
     subreddit : {"forhire"},
     created_utc : {0, 1}]

InitPure ==
    /\ controller = "none"
    /\ now \in 1..MaxTime
    /\ pc = "probe"
    /\ \/ \E d1, d2 \in ProbeDates, T \in ProbeWatermarks,
             w \in {TIME_WINDOWS.DAY, TIME_WINDOWS.MONTH} :
            probe = [NoProbe EXCEPT !.kind = "dates",
                                     !.jobs = <<DatedJob(d1), DatedJob(d2)>>,
                                     !.lastRun = T, !.days = w]
       \/ \E job \in ProbeJobs : probe = [NoProbe EXCEPT !.kind = "filter", !.job = job]
       \/ \E text \in ProbeTexts, keywords \in ProbeKeywordLists :
            probe = [NoProbe EXCEPT !.kind = "keywords", !.text = text,
                                     !.keywords = keywords]
       \/ \E job \in ProbeScored, keyword \in SCORE_KEYWORDS :
            probe = [NoProbe EXCEPT !.kind = "score", !.job = job, !.text = keyword]
       \/ \E post \in ProbePosts :
            probe = [NoProbe EXCEPT !.kind = "posts", !.posts = <<post>>]
       \/ \E job1, job2 \in ProbeTriples :
            probe = [NoProbe EXCEPT !.kind = "ids", !.jobs = <<job1, job2>>]
    /\ InitRest

\* fetchJobsIncremental on a fetched list, with the two date predicates it uses
CallFetchJobsIncremental ==
    /\ pc = "probe" /\ probe.kind = "dates"
    /\ pc' = "dated"
    /\ verdict' = [NoVerdict EXCEPT
            !.kept = fetchJobsIncremental(probe.jobs, probe.lastRun, probe.days, now),
            !.within = [i \in DOMAIN probe.jobs |->
                            isWithinTimeWindow(probe.jobs[i].date, probe.days, now)],
            !.newer = [i \in DOMAIN probe.jobs |->
                            isJobNewerThan(probe.jobs[i].date, probe.lastRun)]]
    /\ UNCHANGED <<probe, controller, now, runNo, env, processed, meta, result, runLocals,
                   outbox, faults, trace>>

\* filterJob on one job record
CallFilterJob ==
    /\ pc = "probe" /\ probe.kind = "filter"
    /\ pc' = "filtered"
    /\ verdict' = [NoVerdict EXCEPT !.filter = filterJob(probe.job)]
    /\ UNCHANGED <<probe, controller, now, runNo, env, processed, meta, result, runLocals,
                   outbox, faults, trace>>

\* containsKeyword on one text and one keyword list
CallContainsKeyword ==
    /\ pc = "probe" /\ probe.kind = "keywords"
    /\ pc' = "searched"
    /\ verdict' = [NoVerdict EXCEPT !.contains = containsKeyword(probe.text, probe.keywords)]
    /\ UNCHANGED <<probe, controller, now, runNo, env, processed, meta, result, runLocals,
                   outbox, faults, trace>>

\* generateStableId on two postings
CallGenerateStableId ==
    /\ pc = "probe" /\ probe.kind = "ids"
    /\ pc' = "identified"
    /\ verdict' = [NoVerdict EXCEPT
            !.ids = [i \in DOMAIN probe.jobs |-> generateStableId(probe.jobs[i])]]
    /\ UNCHANGED <<probe, controller, now, runNo, env, processed, meta, result, runLocals,
                   outbox, faults, trace>>

\* scoreJob on a posting, and on the same posting with one more keyword
CallScoreJob ==
    /\ pc = "probe" /\ probe.kind = "score"
    /\ pc' = "scored"
    /\ verdict' = [NoVerdict EXCEPT
            !.scores = <<scoreJob(probe.job, now),
                         scoreJob(withKeyword(probe.job, probe.text), now)>>]
    /\ UNCHANGED <<probe, controller, now, runNo, env, processed, meta, result, runLocals,
                   outbox, faults, trace>>

\* the Reddit Jobs parser on a listing
CallRedditParser ==
    /\ pc = "probe" /\ probe.kind = "posts"
    /\ pc' = "parsed"
    /\ verdict' = [NoVerdict EXCEPT !.parsed = redditParser(probe.posts)]
    /\ UNCHANGED <<probe, controller, now, runNo, env, processed, meta, result, runLocals,
                   outbox, faults, trace>>

NextPure ==
    \/ CallRedditParser
    \/ CallScoreJob
    \/ CallFetchJobsIncremental
    \/ CallFilterJob
    \/ CallContainsKeyword
    \/ CallGenerateStableId

SpecPure == InitPure /\ [][NextPure]_vars

\* ------------------------------------------------------------ observations
Slugs(jobs) == {jobs[i].slug : i \in DOMAIN jobs}

\* positions of outbox holding a job alert for slug
AlertsFor(slug) == {i \in DOMAIN outbox : outbox[i].kind = "alert" /\ outbox[i].slug = slug}

AlertOk(slug) == \E i \in AlertsFor(slug) : outbox[i].ok

\* slugs of the alert messages in the order they were handed to Telegram
AlertOrder == [i \in DOMAIN SelectSeq(outbox, LAMBDA m : m.kind = "alert") |->
                  SelectSeq(outbox, LAMBDA m : m.kind = "alert")[i].slug]

\* rows of table jobalerts created since the run started
NewRows == RowKeys(processed) \ RowKeys(trace.startProcessed)

RunOver == pc = "done"

\* ------------------------------------------------------------------ claims

\* C1: within a run a processed record is written for a job only after the
\* alert for that job was sent successfully; for a matched job whose alert
\* send fails markJobAsProcessed is not called and the run creates no
\* processed record for its StableId.
C1_MarkOnlyAfterSuccessfulSend ==
    /\ \A slug \in trace.markCalled : AlertOk(slug)
    /\ \A slug \in NewRows : slug \in trace.markCalled /\ AlertOk(slug)
    /\ \A slug \in trace.sendFailed : slug \notin trace.markCalled /\ slug \notin NewRows
    /\ pc = "mark" => outbox[Len(outbox)] = Msg("alert", matchedJobs[sendIdx].slug, TRUE)

\* a completed run in which one alert failed and another job was recorded
C1_Witness ==
    /\ RunOver /\ result = "ok"
    /\ trace.sendFailed # {}
    /\ NewRows # {}
    /\ \E slug \in trace.sendFailed : slug \notin RowKeys(processed)

\* C3: a send failure for one job alert does not abort the run: every matched
\* job after the failed one in the sorted list still has its alert attempted,
\* the run-summary message is still attempted and updateMetadata still runs
\* (setting lastRunAt to the clock unless the store write itself fails).
C3_SendFailureDoesNotAbort ==
    trace.sendFailed # {} =>
        /\ result # "failed"
        /\ pc \in {"send", "mark", "meta", "done"}
        /\ pc \in {"meta", "done"} =>
            /\ AlertOrder = [i \in DOMAIN matchedJobs |-> matchedJobs[i].slug]
            /\ outbox[Len(outbox)].kind = "summary"
        /\ RunOver =>
            /\ result = "ok"
            /\ trace.metaWrite # "none"
            /\ trace.metaWrite = "ok" =>
                meta # <<>> /\ meta[1].lastRunAt = trace.metaAt

\* the first alert of two failed, the second was still attempted, and the
\* run went on to write its metadata
C3_Witness ==
    /\ RunOver /\ result = "ok"
    /\ Len(matchedJobs) = 2
    /\ matchedJobs[1].slug \in trace.sendFailed
    /\ AlertsFor(matchedJobs[2].slug) # {}
    /\ trace.metaWrite = "ok"

\* C2: a notification failure does not suppress the retry of the same job:
\* when the alert of a matched job failed in the previous run and this run,
\* an incremental scan against the watermark that run persisted, gets the
\* posting from the sources again and none of its sends fails, the job is
\* alerted in this run.
C2_FailedAlertRetriedNextRun ==
    (/\ RunOver /\ result = "ok"
     /\ trace.prevMetaWrite = "ok" /\ trace.lastRunUsed # Null
     /\ trace.sendFailed = {}
     /\ Len(allJobs) <= MAX_SCAN_LIMIT) =>
        \A slug \in trace.prevSendFailed :
            (\E i \in DOMAIN allJobs :
                generateStableId(allJobs[i]) = slug /\ filterResults[allJobs[i]].match)
            => AlertOk(slug)

\* alert messages of this run for the posting tr: the k-th alert is the one
\* of matchedJobs[k]
AlertsOfPosting(tr) == {k \in DOMAIN AlertOrder : Triple(matchedJobs[k]) = tr}

RecordsOf(table, tr) == {e \in table : e.url = tr[1] /\ e.title = tr[2]}

\* C4: when the fetched batch of a run holds the same posting twice (same
\* url, title and company), the posting passes the time filter, the scan cap
\* and filterJob and has no record in the store, the run attempts exactly one
\* alert for it, and with the send and the record write succeeding exactly
\* one alert is sent and exactly one processed record is persisted.
C4_DuplicateInBatchAlertedOnce ==
    \A p \in Postings :
        LET tr == Triple(p)
        IN  (/\ Cardinality(Copies(allJobs, tr)) >= 2
             /\ Copies(jobsToProcess, tr) # {}
             /\ filterResults[p].match
             /\ RecordsOf(trace.startProcessed, tr) = {}
             /\ result # "failed") =>
                /\ Cardinality(AlertsOfPosting(tr)) <= 1
                /\ Cardinality(RecordsOf(processed, tr)) <= 1
                /\ pc \in {"meta", "done"} =>
                    /\ Cardinality(AlertsOfPosting(tr)) = 1
                    /\ \A k \in AlertsOfPosting(tr) :
                        matchedJobs[k].slug \notin (trace.sendFailed \cup trace.markFailed) =>
                            /\ AlertOk(matchedJobs[k].slug)
                            /\ Cardinality(RecordsOf(processed, tr)) = 1

\* both sources returned PA, one alert went out and one record was written
C4_Witness ==
    /\ RunOver /\ result = "ok"
    /\ Cardinality(Copies(jobsToProcess, Triple(PA))) = 2
    /\ Cardinality(AlertsOfPosting(Triple(PA))) = 1
    /\ AlertOk(generateStableId(PA))
    /\ Cardinality(RecordsOf(processed, Triple(PA))) = 1
    /\ counts.duplicatesSkipped = 1

\* C5 as stated: once a processed record exists for a StableId no later run
\* sends an alert for a job with that StableId, and no record is ever expired,
\* evicted, deleted or overwritten.
C5_RecordSuppressesAlerts ==
    /\ \A i \in DOMAIN outbox :
        outbox[i].kind = "alert" => outbox[i].slug \notin RowKeys(trace.startProcessed)
    /\ trace.startProcessed \subseteq processed

\* C5 as the code has it: a run sends an alert for a StableId that already
\* has a processed record only when the existence check for it failed in that
\* run (fail-open); records are never removed or overwritten, and a StableId
\* has at most one record.
C5_RecordSuppressesUnlessLookupFails ==
    /\ \A i \in DOMAIN outbox :
        (outbox[i].kind = "alert" /\ outbox[i].slug \in RowKeys(trace.startProcessed))
            => outbox[i].slug \in trace.lookupErr
    /\ trace.startProcessed \subseteq processed
    /\ \A e1, e2 \in processed : e1.rowKey = e2.rowKey => e1 = e2

\* a later run got a recorded posting again, looked it up and skipped it
C5_Witness ==
    /\ RunOver /\ result = "ok" /\ runNo = 2
    /\ \E i \in DOMAIN jobsToProcess :
        /\ generateStableId(jobsToProcess[i]) \in RowKeys(trace.startProcessed)
        /\ generateStableId(jobsToProcess[i]) \notin trace.lookupErr
        /\ AlertsFor(generateStableId(jobsToProcess[i])) = {}
    /\ counts.duplicatesSkipped >= 1

\* slugs the filter loop has called isJobProcessed for
Checked == {generateStableId(jobsToProcess[i]) :
                i \in {j \in 1..(idx - 1) : j <= Len(jobsToProcess) /\ filterResults[jobsToProcess[j]].match}}

\* C6: a failed existence check (not-found or any other lookup error) counts
\* as "not yet processed": the run does not abort and the matched job is
\* scored, put on the alert list and has its alert attempted.
C6_LookupFailureIsNotProcessed ==
    \A slug \in Checked :
        (slug \in trace.lookupErr \/ slug \notin RowKeys(trace.startProcessed)) =>
            /\ result # "failed"
            /\ \E k \in DOMAIN matchedJobs :
                /\ matchedJobs[k].slug = slug
                /\ \E job \in FetchedPostings :
                    /\ generateStableId(job) = slug
                    /\ matchedJobs[k].relevanceScore \in
                            {scoreResults[job][t] : t \in 1..MaxTime}
            /\ pc \in {"meta", "done"} => AlertsFor(slug) # {}

\* the lookup of a recorded posting threw and the posting was alerted again
C6_Witness ==
    /\ RunOver /\ result = "ok"
    /\ \E slug \in trace.lookupErr :
        slug \in RowKeys(trace.startProcessed) /\ AlertOk(slug)

OkAlerts == {i \in DOMAIN outbox : outbox[i].kind = "alert" /\ outbox[i].ok}

\* C7: a store write error in markJobAsProcessed or in updateMetadata is
\* swallowed: the run does not abort, the alerts of the remaining matched
\* jobs are still attempted, the job whose record write failed is still
\* counted as sent, and the run completes successfully.
C7_StoreWriteErrorSwallowed ==
    /\ trace.markFailed \subseteq trace.markCalled
    /\ (trace.markFailed # {} \/ trace.metaWrite = "failed") =>
        /\ result # "failed"
        /\ counts.sentCount = Cardinality(OkAlerts) - (IF pc = "mark" THEN 1 ELSE 0)
        /\ pc \in {"meta", "done"} =>
            AlertOrder = [i \in DOMAIN matchedJobs |-> matchedJobs[i].slug]
        /\ RunOver => result = "ok"

\* the record write of the first alert failed, the second alert went out,
\* both count as sent, and the metadata write failed as well
C7_Witness ==
    /\ RunOver /\ result = "ok"
    /\ Len(matchedJobs) = 2
    /\ matchedJobs[1].slug \in trace.markFailed
    /\ AlertOk(matchedJobs[2].slug)
    /\ counts.sentCount = 2
    /\ trace.metaWrite = "failed"

RECURSIVE FetchedFrom(_)
FetchedFrom(responses) ==
    IF responses = <<>> THEN <<>>
    ELSE LET last == responses[Len(responses)]
         IN  FetchedFrom(SubSeq(responses, 1, Len(responses) - 1))
                \o (IF last[1] = "ok" THEN last[2] ELSE <<>>)

\* C8: a fetch or parse failure of one source never aborts the run: that
\* source contributes zero jobs, every other source of the list is still
\* fetched, and the jobs of the sources that succeeded are all in the result.
C8_SourceFailureIsolated ==
    /\ allJobs = FetchedFrom(trace.responses)
    /\ pc = "fetch" => Len(trace.responses) = srcIdx - 1
    /\ pc \in {"filter", "send", "mark", "noJobs", "meta"} =>
        Len(trace.responses) = NumSources
    /\ (RunOver /\ trace.responses # <<>>) =>
        result = "ok" /\ Len(trace.responses) = NumSources

\* the first source failed, the second one delivered, the run completed
C8_Witness ==
    /\ RunOver /\ result = "ok"
    /\ trace.responses[1] = <<"fail">>
    /\ trace.responses[2][1] = "ok"
    /\ allJobs # <<>>

MissingSetting == ~env.botToken \/ ~env.chatId \/ ~env.storage

\* C9: when a required setting is missing (store connection string, bot token
\* or recipient id) the run ends in failure surfaced to the trigger, and in
\* that run no source is fetched, no job alert is sent, no processed record is
\* written and the run metadata is left unchanged.
C9_MissingSettingIsFatal ==
    (pc # "idle" /\ MissingSetting) =>
        /\ pc \in {"notifyStart", "initStorage", "done"}
        /\ RunOver => result = "failed"
        /\ trace.responses = <<>>
        /\ allJobs = <<>>
        /\ \A i \in DOMAIN outbox : outbox[i].kind = "started"
        /\ processed = trace.startProcessed
        /\ meta = trace.startMeta

\* a second run without the connection string failed and left the records and
\* the watermark of the first run alone
C9_Witness ==
    /\ RunOver /\ result = "failed" /\ runNo = 2
    /\ ~env.storage
    /\ processed # {}
    /\ meta # <<>>

\* lastRunAt never decreases, and moves only once updateMetadata has run
WatermarkMonotone ==
    /\ trace.metaWrite = "none" => meta = trace.startMeta
    /\ (trace.startMeta # <<>>) =>
        meta # <<>> /\ meta[1].lastRunAt >= trace.startMeta[1].lastRunAt

\* C10 as stated: every run that does not abort fatally sets lastRunAt to the
\* current time at its end, whatever it matched or sent; a run that aborts
\* fatally leaves lastRunAt unchanged; lastRunAt never decreases.
C10_WatermarkAdvancedByEveryRun ==
    /\ (RunOver /\ result = "ok") =>
        meta # <<>> /\ meta[1].lastRunAt = trace.metaAt
    /\ (RunOver /\ result = "failed") => meta = trace.startMeta
    /\ WatermarkMonotone

\* C10 as the code has it: every run that does not abort fatally calls
\* updateMetadata at its end, after fetching and processing, and when that
\* store write succeeds lastRunAt is the current time, whatever the run
\* matched or sent; when the write fails (swallowed) or the run aborts
\* fatally lastRunAt is unchanged; lastRunAt never decreases.
C10_WatermarkAdvancedWhenWriteSucceeds ==
    /\ (RunOver /\ result = "ok") =>
        /\ trace.metaWrite # "none"
        /\ trace.fetchedAt # Null /\ trace.fetchedAt <= trace.metaAt
        /\ trace.metaWrite = "ok" => meta # <<>> /\ meta[1].lastRunAt = trace.metaAt
        /\ trace.metaWrite = "failed" => meta = trace.startMeta
    /\ (RunOver /\ result = "failed") => meta = trace.startMeta
    /\ WatermarkMonotone

\* a second run that found no job moved the watermark forward
C10_Witness ==
    /\ RunOver /\ result = "ok" /\ runNo = 2
    /\ allJobs = <<>>
    /\ trace.startMeta # <<>>
    /\ meta[1].lastRunAt > trace.startMeta[1].lastRunAt

\* C11: the scan mode of a run is chosen by the persisted watermark: the time
\* filter of a run uses the fallback window (no watermark handed to it) only
\* when the metadata table held no lastRunAt at the start of the run, and
\* once a lastRunAt is persisted the run filters against that watermark.
C11_ModeChosenByWatermark ==
    trace.fetchedAt # Null =>
        /\ (trace.lastRunUsed = Null) <=> (trace.startMeta = <<>>)
        /\ trace.startMeta # <<>> => trace.lastRunUsed = trace.startMeta[1].lastRunAt

\* the candidates of this run: the fetched jobs that passed the time filter
Candidates ==
    fetchJobsIncremental(allJobs, trace.lastRunUsed, getTimeWindow(env.JOB_WINDOW),
                         trace.fetchedAt)

\* C14: the scan cap is applied before deduplication and filtering: at most
\* MAX_SCAN_LIMIT candidates are deduplicated and filtered in a run, they are
\* the first MAX_SCAN_LIMIT candidates in fetch order, and a job beyond the
\* cap is dropped without an error and is not matched, alerted or recorded
\* as processed in that run.
C14_ScanCapBeforeFiltering ==
    trace.fetchedAt # Null =>
        /\ Len(jobsToProcess) <= MAX_SCAN_LIMIT
        /\ jobsToProcess = SubSeq(Candidates, 1, Min(Len(Candidates), MAX_SCAN_LIMIT))
        /\ counts.processedCount <= MAX_SCAN_LIMIT
        /\ Cardinality(seenInThisRun) <= MAX_SCAN_LIMIT
        /\ Len(matchedJobs) <= MAX_SCAN_LIMIT
        /\ result # "failed"
        /\ \A k \in DOMAIN Candidates :
            LET slug == generateStableId(Candidates[k])
            IN  (k > MAX_SCAN_LIMIT
                 /\ \A i \in DOMAIN jobsToProcess : generateStableId(jobsToProcess[i]) # slug)
                => /\ slug \notin seenInThisRun
                   /\ slug \notin Slugs(matchedJobs)
                   /\ AlertsFor(slug) = {}
                   /\ slug \notin NewRows

\* four candidates, the fourth a matching posting the first three do not
\* hold: the run alerted the first posting and never touched the fourth
C14_Witness ==
    /\ RunOver /\ result = "ok"
    /\ Len(Candidates) = MAX_SCAN_LIMIT + 1
    /\ Len(jobsToProcess) = MAX_SCAN_LIMIT
    /\ filterResults[Candidates[MAX_SCAN_LIMIT + 1]].match
    /\ generateStableId(Candidates[MAX_SCAN_LIMIT + 1]) \notin seenInThisRun
    /\ AlertsFor(generateStableId(Candidates[MAX_SCAN_LIMIT + 1])) = {}
    /\ OkAlerts # {}
    /\ counts.totalAfterTimeFilter = MAX_SCAN_LIMIT + 1

\* C15: job alerts are sent in descending relevance-score order: the alerts
\* of a run are attempted in the order of the sorted list, and of any two of
\* them the one attempted earlier has a score greater than or equal to the
\* score of the later one.
C15_AlertsInDescendingScore ==
    pc \in {"send", "mark", "meta", "done"} =>
        /\ Len(AlertOrder) <= Len(matchedJobs)
        /\ \A k \in DOMAIN AlertOrder : AlertOrder[k] = matchedJobs[k].slug
        /\ \A i, j \in DOMAIN AlertOrder :
            i < j => matchedJobs[i].relevanceScore >= matchedJobs[j].relevanceScore
        /\ \A i, j \in DOMAIN matchedJobs :
            i < j => matchedJobs[i].relevanceScore >= matchedJobs[j].relevanceScore

\* two alerts went out, the higher score first, although the filter loop
\* met the lower-scored job first
C15_Witness ==
    /\ RunOver /\ result = "ok"
    /\ Len(matchedJobs) = 2
    /\ matchedJobs[1].relevanceScore > matchedJobs[2].relevanceScore
    /\ AlertOrder = <<matchedJobs[1].slug, matchedJobs[2].slug>>
    /\ \E i, j \in DOMAIN jobsToProcess :
        /\ i < j
        /\ generateStableId(jobsToProcess[i]) = matchedJobs[2].slug
        /\ generateStableId(jobsToProcess[j]) = matchedJobs[1].slug

MessageKinds == [i \in DOMAIN outbox |-> outbox[i].kind]

\* C16: in every run that does not abort the messages are emitted in the
\* order run-started, job alerts, one closing message; the closing message is
\* the run summary when at least one new job matched and the no-jobs variant
\* when none matched; no job alert is attempted before run-started or after
\* the closing message.
C16_MessageOrder ==
    /\ outbox # <<>> => outbox[1].kind = "started"
    /\ \A i \in DOMAIN outbox :
        /\ i > 1 => outbox[i].kind # "started"
        /\ outbox[i].kind \in {"summary", "noJobs"} => i = Len(outbox)
    /\ pc \in {"initStorage", "fetch", "filter", "noJobs"} => MessageKinds = <<"started">>
    /\ pc \in {"send", "mark"} =>
        /\ Len(outbox) >= 1
        /\ \A i \in 2..Len(outbox) : outbox[i].kind = "alert"
    /\ (pc = "meta" \/ (RunOver /\ result = "ok")) =>
        /\ Len(outbox) = Len(matchedJobs) + 2
        /\ \A i \in 2..(Len(outbox) - 1) : outbox[i].kind = "alert"
        /\ outbox[Len(outbox)].kind = IF Len(matchedJobs) > 0 THEN "summary" ELSE "noJobs"

\* a run with two matched jobs: started, two alerts, the summary
C16_Witness ==
    /\ RunOver /\ result = "ok"
    /\ MessageKinds = <<"started", "alert", "alert", "summary">>

\* C12: in Incremental mode with watermark T a fetched job with a parseable
\* posting date is kept if and only if its date is strictly after T: the job
\* dated T+1 is kept, the jobs dated T-1 and exactly T are dropped.
C12_IncrementalKeepsStrictlyNewer ==
    (pc = "dated" /\ probe.lastRun \notin {Null, NaN}) =>
        /\ \A i \in DOMAIN probe.jobs :
            Parseable(probe.jobs[i].date) =>
                (verdict.newer[i] <=> probe.jobs[i].date.v > probe.lastRun)
        /\ verdict.kept = SelectSeq(probe.jobs,
                LAMBDA job : ~Parseable(job.date) \/ job.date.v > probe.lastRun)

\* watermark 2, jobs dated 1 and 3: only the job dated 3 is kept
C12_Witness ==
    /\ pc = "dated"
    /\ probe.lastRun = 2
    /\ probe.jobs = <<DatedJob(Day(1)), DatedJob(Day(3))>>
    /\ verdict.kept = <<DatedJob(Day(3))>>

FailsStage(job, k) ==
    LET text == combinedTextOf(job)
    IN  CASE k = 1 -> IF isRedditPost(job)
                      THEN ~(\/ containsKeyword(text, INDIA_KEYWORDS)
                             \/ containsKeyword(text, PREFERRED_CITIES))
                      ELSE ~isIndiaLocation(job)
          [] k = 2 -> containsKeyword(text, EXCLUDE_KEYWORDS)
          [] k = 3 -> containsKeyword(text, NON_TECHNICAL_KEYWORDS)
          [] k = 4 -> ~containsKeyword(text, PURE_TECHNICAL_KEYWORDS)
          [] k = 5 -> ~containsKeyword(text, INCLUDE_KEYWORDS)
          [] k = 6 -> experienceRejects(text)

StageReason(job, k) ==
    CASE k = 1 -> IF isRedditPost(job) THEN REASON_REDDIT ELSE REASON_LOCATION
      [] k = 2 -> REASON_SENIOR
      [] k = 3 -> REASON_NON_TECHNICAL
      [] k = 4 -> REASON_NOT_TECHNICAL
      [] k = 5 -> REASON_NO_KEYWORD
      [] k = 6 -> REASON_EXPERIENCE

FailingStages(job) == {k \in 1..6 : FailsStage(job, k)}

\* C17: filterJob evaluates the stages in the order location, seniority
\* exclusion, non-technical exclusion, technical-role requirement, keyword
\* requirement, experience-years, and reports the reason of the first failing
\* stage; a job no stage rejects is a match. A foreign-located senior-level
\* job gets the location reason.
C17_FirstFailingStageReported ==
    pc = "filtered" =>
        LET failing == FailingStages(probe.job)
        IN  /\ verdict.filter.match <=> failing = {}
            /\ failing # {} =>
                verdict.filter =
                    NoMatch(StageReason(probe.job, CHOOSE k \in failing : \A h \in failing : k <= h))
            /\ failing = {} => verdict.filter.reason = "" /\ verdict.filter.matchedKeyword # ""

\* a senior-level job located in Berlin is rejected for its location
C17_Witness ==
    /\ pc = "filtered"
    /\ probe.job.location = "Berlin, Germany"
    /\ probe.job.title = "Senior Cloud Engineer"
    /\ ~isRedditPost(probe.job)
    /\ {1, 2} \subseteq FailingStages(probe.job)
    /\ verdict.filter = NoMatch(REASON_LOCATION)

\* the location names a foreign country or city
NamesForeignPlace(job) == someIncluded(toLowerCase(job.location), foreignIndicators)

EntryLevelWord(text) ==
    \E k \in DOMAIN ENTRY_LEVEL_KEYWORDS :
        wordBoundaryTest(toLowerCase(text), toLowerCase(ENTRY_LEVEL_KEYWORDS[k]))

\* an entry-level term occurs somewhere in the text, in any case
EntryLevelTerm(text) == someIncluded(toLowerCase(text), ENTRY_LEVEL_KEYWORDS)

\* C19: for a job that passes stages 1 to 5, if the text mentions a number of
\* years greater than 2 and contains no entry-level term as a word of the
\* text, filterJob returns no-match with the reason "Requires more than 2
\* years experience"; if the text mentions no number of years at all, the
\* stage accepts.
C19_ExperienceGateRejects ==
    (pc = "filtered" /\ FailingStages(probe.job) \cap 1..5 = {}) =>
        LET text == combinedTextOf(probe.job)
        IN  /\ ((\E y \in yearsMentioned(text) : y > 2) /\ ~EntryLevelWord(text))
                    => verdict.filter = NoMatch(REASON_EXPERIENCE)
            /\ yearsMentioned(text) = {} => verdict.filter.match

\* C20 as stated: a job whose text contains "5+ years" and "Fresher" in
\* different parts is accepted at the experience-years stage, so with every
\* other stage satisfied it is a match; filterJob never returns the reason
\* "Requires more than 2 years experience" for a job whose text contains an
\* entry-level term.
C20_EntryLevelOverrideAccepts ==
    pc = "filtered" =>
        LET text == combinedTextOf(probe.job)
            lowerText == toLowerCase(text)
        IN  /\ (/\ includes(lowerText, "5+ years") /\ includes(lowerText, "fresher")
                 /\ FailingStages(probe.job) \cap {1, 3, 4, 5} = {})
                    => verdict.filter.match
            /\ EntryLevelTerm(text) => verdict.filter.reason # REASON_EXPERIENCE

\* C20 as the code has it: filterJob never returns the reason "Requires more
\* than 2 years experience" for a job whose text contains an entry-level
\* term, and such a job that mentions more than 2 years and passes stages 1
\* to 5 is a match; a text with "5+ years" never reaches the experience-years
\* stage, because "5+ years" is one of EXCLUDE_KEYWORDS: with "Fresher" in it
\* or not, the job is rejected at the location stage or at the seniority
\* exclusion.
C20_EntryLevelOverrideAfterExclusion ==
    pc = "filtered" =>
        LET text == combinedTextOf(probe.job)
            lowerText == toLowerCase(text)
        IN  /\ EntryLevelTerm(text) =>
                /\ verdict.filter.reason # REASON_EXPERIENCE
                /\ FailingStages(probe.job) \cap 1..5 = {} => verdict.filter.match
            /\ includes(lowerText, "5+ years") =>
                /\ ~verdict.filter.match
                /\ verdict.filter.reason \in {REASON_LOCATION, REASON_REDDIT, REASON_SENIOR}

\* "Cloud Engineer Fresher" with "Azure, 5 years": the number exceeds 2, the
\* entry-level term overrides it and the job is a match
C20_Witness ==
    /\ pc = "filtered"
    /\ probe.job.title = "Cloud Engineer Fresher"
    /\ probe.job.description = "Azure, 5 years"
    /\ 5 \in yearsMentioned(combinedTextOf(probe.job))
    /\ EntryLevelTerm(combinedTextOf(probe.job))
    /\ verdict.filter.match

\* the keyword stands in the lower-cased text at position i as a whole word:
\* where the keyword begins or ends with a word character, the text has a
\* word boundary there
WholeWordAt(lowerText, lowerKeyword, i) ==
    LET j == i + Len(lowerKeyword)
    IN  /\ SubSeq(lowerText, i, j - 1) = lowerKeyword
        /\ isWordChar(lowerKeyword, 1) => wordBoundary(lowerText, i)
        /\ isWordChar(lowerKeyword, Len(lowerKeyword)) => wordBoundary(lowerText, j)

\* the keyword occurs in the text ignoring case: as a whole word when it has
\* at most 4 characters, as a substring when it is longer
KeywordOccurs(text, keyword) ==
    LET lowerText == toLowerCase(text)
        lowerKeyword == toLowerCase(keyword)
    IN  IF Len(lowerKeyword) <= 4
        THEN \E i \in 1..(Len(lowerText) - Len(lowerKeyword) + 1) :
                WholeWordAt(lowerText, lowerKeyword, i)
        ELSE includes(lowerText, lowerKeyword)

\* C21: containsKeyword(text, keywords) is true exactly when some keyword of
\* the list occurs in the text ignoring case, as a whole word when the keyword
\* has at most 4 characters and as a plain substring when it is longer; this
\* holds for every keyword of the rule tables, "(IN)" and ", IN" included.
C21_ContainsKeywordIsOccurrence ==
    pc = "searched" =>
        (verdict.contains <=>
            \E k \in DOMAIN probe.keywords : KeywordOccurs(probe.text, probe.keywords[k]))

\* "(IN)" is found in a text that has the word "in" and no "(IN)"
ParenthesisedKeywordMatchesPlainWord ==
    /\ pc = "searched"
    /\ probe.text = "Developer in Berlin"
    /\ probe.keywords = <<"(IN)">>
    /\ ~includes(toLowerCase(probe.text), "(in)")
    /\ verdict.contains

\* the same statement for the keywords made of letters and digits only
AlphanumericKeywordsAsStated ==
    (pc = "searched" /\ \A k \in DOMAIN probe.keywords :
                            CharsOf(probe.keywords[k]) \subseteq WordChars \cup {" ", "-"}) =>
        (verdict.contains <=>
            \E k \in DOMAIN probe.keywords : KeywordOccurs(probe.text, probe.keywords[k]))

\* the text names an India token or a listed city
NamesIndia(text) ==
    \/ \E k \in DOMAIN INDIA_KEYWORDS : KeywordOccurs(text, INDIA_KEYWORDS[k])
    \/ \E k \in DOMAIN PREFERRED_CITIES : KeywordOccurs(text, PREFERRED_CITIES[k])

\* C22: a Reddit post passes the location stage only if its combined
\* title+description contains an India token or a listed city name; a post
\* whose text names neither is rejected with the reason "Reddit post does not
\* mention India".
C22_RedditPostMustNameIndia ==
    (pc = "filtered" /\ isRedditPost(probe.job)) =>
        LET text == combinedTextOf(probe.job)
        IN  /\ ~NamesIndia(text) => verdict.filter = NoMatch(REASON_REDDIT)
            /\ verdict.filter.reason # REASON_LOCATION
            /\ NamesIndia(text) => verdict.filter.reason # REASON_REDDIT

\* a Reddit post about Berlin, with the word "in" in its text, is a match
RedditPostAboutBerlinMatches ==
    /\ pc = "filtered"
    /\ isRedditPost(probe.job)
    /\ probe.job.title = "Cloud Engineer"
    /\ probe.job.description = "Azure in Berlin"
    /\ ~NamesIndia(combinedTextOf(probe.job))
    /\ verdict.filter.match

\* a Reddit post without the word "in" and without an India token or city is
\* rejected at the location stage
RedditPostWithoutIndiaRejected ==
    /\ pc = "filtered"
    /\ isRedditPost(probe.job)
    /\ probe.job.title = "Cloud Engineer"
    /\ probe.job.description = "Azure"
    /\ verdict.filter = NoMatch(REASON_REDDIT)

\* positions of INCLUDE_KEYWORDS whose keyword matches the text under the rule
\* of stage 5
Stage5Hits(text) ==
    {k \in DOMAIN INCLUDE_KEYWORDS : containsKeyword(text, <<INCLUDE_KEYWORDS[k]>>)}

\* C23: when filterJob returns a match, matchedKeyword is defined and is the
\* first keyword of INCLUDE_KEYWORDS, in list order, that matches the text
\* under the stage-5 rule (word boundaries for keywords of at most 4
\* characters, substring otherwise).
C23_MatchedKeywordTriggeredStage5 ==
    (pc = "filtered" /\ verdict.filter.match) =>
        LET hits == Stage5Hits(combinedTextOf(probe.job))
        IN  /\ verdict.filter.matchedKeyword # ""
            /\ hits # {}
            /\ verdict.filter.matchedKeyword =
                    INCLUDE_KEYWORDS[CHOOSE k \in hits : \A h \in hits : k <= h]

\* "AWS" is reported for a text whose only "aws" is inside "laws"
MatchedKeywordInsideAnotherWord ==
    /\ pc = "filtered"
    /\ probe.job.title = "Cloud Engineer"
    /\ probe.job.description = "Knows the laws"
    /\ verdict.filter.match
    /\ verdict.filter.matchedKeyword = "AWS"
    /\ ~containsKeyword(combinedTextOf(probe.job), <<"AWS">>)

\* a match always names some keyword of INCLUDE_KEYWORDS that is a substring
\* of the text, ignoring case
MatchedKeywordIsSubstring ==
    (pc = "filtered" /\ verdict.filter.match) =>
        /\ \E k \in DOMAIN INCLUDE_KEYWORDS : INCLUDE_KEYWORDS[k] = verdict.filter.matchedKeyword
        /\ includes(toLowerCase(combinedTextOf(probe.job)),
                    toLowerCase(verdict.filter.matchedKeyword))

\* C24: two postings with identical (url, title, company) get the same
\* StableId, and two postings whose URLs differ get different StableIds,
\* whatever their titles and company names are (the hash taken as
\* collision-free on its input string).
C24_StableIdSeparatesByUrl ==
    pc = "identified" =>
        LET job1 == probe.jobs[1]
            job2 == probe.jobs[2]
        IN  /\ Triple(job1) = Triple(job2) => verdict.ids[1] = verdict.ids[2]
            /\ job1.url # job2.url => verdict.ids[1] # verdict.ids[2]

\* two postings with different URLs and different titles get one StableId
DifferentUrlsSameStableId ==
    /\ pc = "identified"
    /\ probe.jobs[1].url = "a" /\ probe.jobs[1].title = "bc"
    /\ probe.jobs[2].url = "ab" /\ probe.jobs[2].title = "c"
    /\ probe.jobs[1].company_name = probe.jobs[2].company_name
    /\ verdict.ids[1] = verdict.ids[2]

\* the id is a function of the triple, and with title and company equal it
\* separates the URLs
StableIdOfEqualTitles ==
    pc = "identified" =>
        LET job1 == probe.jobs[1]
            job2 == probe.jobs[2]
        IN  /\ Triple(job1) = Triple(job2) => verdict.ids[1] = verdict.ids[2]
            /\ (/\ job1.url # job2.url /\ job1.title = job2.title
                 /\ job1.company_name = job2.company_name) => verdict.ids[1] # verdict.ids[2]

FilterLoopOver == pc \in {"send", "mark", "noJobs", "meta"} \/ (RunOver /\ result = "ok")

\* the example posting, whatever source tag it got, fails no filter stage
ExamplePassesAllStages ==
    \A job \in FetchedPostings :
        Triple(job) = Triple(PA) => FailingStages(job) = {} /\ filterResults[job].match

\* C26: the posting "Azure Cloud Engineer - Fresher" of Microsoft in
\* "Bangalore, India" with the description "0-1 years experience, Azure,
\* DevOps" passes all six filter stages, gets a score of at least 100, and in
\* a run that scans it while it has no record in the store it is on the alert
\* list with that score and its alert is attempted.
C26_ExamplePostingIsAlerted ==
    /\ ExamplePassesAllStages
    /\ (/\ FilterLoopOver
         /\ \E i \in DOMAIN jobsToProcess : Triple(jobsToProcess[i]) = Triple(PA)
         /\ generateStableId(PA) \notin RowKeys(trace.startProcessed)) =>
            /\ \E k \in DOMAIN matchedJobs :
                /\ matchedJobs[k].slug = generateStableId(PA)
                /\ matchedJobs[k].relevanceScore >= 100
            /\ RunOver => AlertsFor(generateStableId(PA)) # {}

\* the example posting was fetched two days after its date, scored 130 and
\* its alert was sent
C26_Witness ==
    /\ RunOver /\ result = "ok"
    /\ now = 2
    /\ generateStableId(PA) \notin RowKeys(trace.startProcessed)
    /\ \E k \in DOMAIN matchedJobs :
        /\ matchedJobs[k].slug = generateStableId(PA)
        /\ matchedJobs[k].relevanceScore = 130
    /\ AlertOk(generateStableId(PA))

\* C27: the classifier of community posts checks the rejection patterns,
\* then the acceptance patterns, then the body heuristics: a post that matches
\* a work-seeker pattern yields no job even when it also matches a hiring
\* pattern or a body heuristic, a post that matches none of the three groups
\* yields no job, and any other post yields one job.
C27_SeekerPatternsOverrideHiring ==
    pc = "parsed" =>
        LET post == probe.posts[1]
        IN  /\ rejectedAsSeeker(post) => verdict.parsed = <<>>
            /\ (~rejectedAsSeeker(post) /\ ~acceptedByTitle(post) /\ ~acceptedByBody(post))
                    => verdict.parsed = <<>>
            /\ (~rejectedAsSeeker(post) /\ (acceptedByTitle(post) \/ acceptedByBody(post)))
                    => /\ Len(verdict.parsed) = 1
                       /\ isRedditPost(verdict.parsed[1])

\* a "[Hiring]" title with "available for" in it and "Apply now" in the body
\* yields no job
C27_Witness ==
    /\ pc = "parsed"
    /\ probe.posts[1].title = "[Hiring] Engineer available for contract"
    /\ probe.posts[1].selftext = "Apply now"
    /\ probe.posts[1].link_flair_text = "Hiring"
    /\ acceptedByTitle(probe.posts[1]) /\ acceptedByBody(probe.posts[1])
    /\ verdict.parsed = <<>>

C29_NoPostingBetweenScans ==
    (/\ pc \in {"filter", "send", "mark", "noJobs", "meta"}
     /\ trace.prevMetaWrite = "ok"
     /\ trace.lastRunUsed # Null
     /\ trace.lastRunUsed = trace.startMeta[1].lastRunAt
     /\ counts.totalAfterTimeFilter <= MAX_SCAN_LIMIT) =>
        \A p \in trace.prevMissed :
            \A i \in Copies(allJobs, Triple(p)) :
                \E k \in DOMAIN jobsToProcess : jobsToProcess[k] = allJobs[i]

\* the earlier run fetched on day 1 and wrote its watermark on day 2; the
\* posting of day 2 came with the later run's fetch and was dropped
PostingOfTheRunDayDropped ==
    /\ pc = "filter"
    /\ trace.prevFetchedAt = 1
    /\ trace.prevMetaWrite = "ok"
    /\ trace.lastRunUsed = 2
    /\ PC \in trace.prevMissed
    /\ Copies(allJobs, Triple(PC)) # {}
    /\ Copies(jobsToProcess, Triple(PC)) = {}

\* with the watermark written at the moment of the fetch, no posting later
\* than the fetch is dropped
KeptWhenWatermarkIsFetchTime ==
    (/\ pc \in {"filter", "send", "mark", "noJobs", "meta"}
     /\ trace.prevMetaWrite = "ok"
     /\ trace.lastRunUsed # Null
     /\ trace.lastRunUsed = trace.prevFetchedAt
     /\ counts.totalAfterTimeFilter <= MAX_SCAN_LIMIT) =>
        \A p \in trace.prevMissed :
            \A i \in Copies(allJobs, Triple(p)) :
                \E k \in DOMAIN jobsToProcess : jobsToProcess[k] = allJobs[i]

\* C30: the store connection setting is validated only after the run-started
\* notification was attempted: a run with bot credentials and without the
\* store connection string attempts exactly one message, the run-started one,
\* before it fails; a run without bot credentials fails with no message
\* attempted; a network failure of the run-started message does not abort the
\* run.
C30_StartNotificationBeforeStorageCheck ==
    LET credentials == env.botToken /\ env.chatId
        pastStart == runNo > 0 /\ pc \notin {"idle", "notifyStart"}
    IN  /\ (pastStart /\ credentials) =>
                outbox # <<>> /\ outbox[1].kind = "started"
        /\ (pastStart /\ credentials /\ ~env.storage /\ pc # "initStorage") =>
                /\ RunOver /\ result = "failed"
                /\ MessageKinds = <<"started">>
        /\ (pastStart /\ ~credentials) =>
                /\ RunOver /\ result = "failed"
                /\ outbox = <<>>
        /\ (pastStart /\ credentials /\ env.storage) => result # "failed"

\* the run-started message went out and the run then failed on the missing
\* connection string
C30_Witness ==
    /\ RunOver /\ result = "failed"
    /\ env.botToken /\ env.chatId /\ ~env.storage
    /\ outbox = <<Msg("started", "", TRUE)>>

\* the run-started message failed on the network and the run completed
StartNotificationLostRunCompleted ==
    /\ RunOver /\ result = "ok"
    /\ outbox # <<>>
    /\ outbox[1] = Msg("started", "", FALSE)
    /\ \E i \in DOMAIN outbox : outbox[i].kind = "alert" /\ outbox[i].ok

TypeOK ==
    /\ controller \in {"window", "incremental", "none"}
    /\ now \in 1..MaxTime
    /\ runNo \in 0..MaxRuns
    /\ pc \in {"idle", "notifyStart", "initStorage", "fetch", "filter", "send", "mark",
               "noJobs", "meta", "done", "probe", "dated", "filtered", "searched", "identified", "scored", "parsed"}
    /\ result \in {"none", "ok", "failed"}

====
